---- MODULE Spec2Model ----
(***************************************************************************)
(* Model of the nobodywho inference worker (core/src/llm.rs) together with *)
(* the session handle that drives it and the chat state it renders its     *)
(* prompts from (src/chat_state.rs).                                       *)
(*                                                                         *)
(* Text is a sequence of one-character strings.  The inference engine      *)
(* (tokenizer, KV cache, sampler) is the llama.cpp capability the worker   *)
(* consumes: the tokenizer maps each character to the id of its vocabulary *)
(* entry, the KV cache is the list of occupied cells, and the sampler      *)
(* picks any token of SampleToks.                                          *)
(***************************************************************************)
EXTENDS Integers, Sequences, FiniteSets, TLC

(* ------------------------------ bounds --------------------------------- *)
MaxCtx == 5         \* context capacities 1..MaxCtx are explored
MaxCalls == 2       \* commands-sending calls (say, ResetContext) per session
MaxGen == 3         \* tokens sampled per session before the engine yields only the end marker
MaxTexts == 1       \* texts sent to the embedding worker that runs next to two chat turns
MaxEmbedTexts == 3  \* texts sent to an embedding worker that runs without chat turns
MaxEmbedCtx == 4    \* capacity of the embedding context, in tokens
MaxDim == 2         \* dimensions of the vectors given to cosine_similarity
MaxLoopSays == 2    \* messages sent on the say channel of simple_chat_loop
MaxStream == 2      \* tokens in one response stream of simple_chat_loop
MaxMsgs == 3        \* messages added to a ChatState used on its own
MaxStack == 3       \* frames of send_message or embed the stack holds
MaxSpin == 2        \* passes of a physics_process loop that are counted
MaxNodeSays == 2    \* messages a script sends to one worker of a node
MaxNodeEvents == 2  \* events one worker of a node sends

(* ---------------------------- vocabulary -------------------------------- *)
\* text of the vocabulary entries; the token id is the index
Vocab == <<"S", "U", "A", "E", "a", "b", "\n">>
TokenOf(c) == CHOOSE i \in 1..Len(Vocab) : Vocab[i] = c
\* the model's end-of-generation token is the end-of-turn marker "E"
EogTok == TokenOf("E")
\* a token whose bytes are not valid UTF-8 on their own
BadTok == Len(Vocab) + 1
SampleToks == {TokenOf("a"), EogTok, BadTok}
REPLACEMENT == "?"
NUL == "0"

\* texts a caller passes to say
SayTexts == {<<"a">>, <<NUL>>}
SystemPrompt == <<"b">>
\* LLMActorParams.stop_tokens of the session
StopTokens == {<<"a", "a">>}
\* chat templates a model file can carry
Templates == {"plain", "chatml", "gemma"}

VARIABLES
    n_ctx,          \* ctx.n_ctx()
    stop_tokens,    \* WorkerState.stop_tokens
    chat_template,  \* ChatState.chat_template
    messages,       \* ChatState.messages
    length,         \* ChatState.length
    h_pc,           \* handle thread: "idle", "recv", "grb", "dropped"
    n_say,          \* number of say calls so far
    n_reset,        \* number of ResetContext commands sent so far
    message_q,      \* command channel (message_tx -> message_rx)
    completion_q,   \* event channel (completion_tx -> completion_rx)
    w_pc,           \* worker: "idle", "gen", "sample", "done", "dead", "panicked", "exited"
    n_past,         \* WorkerState.n_past
    kv,             \* KV cache of the context: occupied cells in slot order
    full_response,  \* the response accumulated by the running WriteUntilDone
    respond_to,     \* turn id of the running WriteUntilDone (0: none)
    n_gen,          \* tokens sampled so far
    gil,            \* GLOBAL_INFERENCE_LOCK: "free", "poisoned", or its holder "chat", "peer", "embed"
    p_said,         \* second session: its Handle has called say
    p_message_q,    \* second session: command channel
    p_completion_q, \* second session: event channel
    p_pc,           \* second session's worker: "idle", "gen", "done", "dead"
    p_response,     \* second session: full_response of its running WriteUntilDone
    p_n_gen,        \* second session: tokens sampled so far
    n_text,         \* embedding session: texts sent so far
    text_q,         \* embedding session: text channel (text_tx -> text_rx)
    embedding_q,    \* embedding session: output channel (embedding_tx -> embedding_rx)
    e_pc,           \* embedding worker: "idle", "locked", "dead", "panicked"
    e_kv,           \* embedding worker: KV cache of its context
    e_log,          \* history: the texts the embedding worker has received, in order
    said,           \* history: the result of every say call, in order
    diffs,          \* history: the render_diff outputs so far, concatenated
    out_log,        \* history: every event the worker has sent, in order
    finished,       \* history: turn ids whose WriteUntilDone returned Ok
    fatal,          \* history: the error that ended the worker, and the turn it served
    last_cmd,       \* history: the command handle_msg took last
    gen_start,      \* history: n_past when the latest WriteUntilDone began (-1: none yet)
    shifted,        \* history: the latest WriteUntilDone has shifted the context
    cs_last,        \* history: the latest call on a ChatState used on its own
    sampler_config, \* LLMActorParams.sampler_config
    sampler,        \* WorkerState.sampler: the stages of the chain (<<>>: not built yet)
    engine,         \* the model's weights: the token with the top logit after each token
    pooling,        \* the model yields pooled embeddings (it is an embedding model)
    cos_last,       \* history: the latest cosine_similarity call and its result
    chat_loop,      \* simple_chat_loop: its position, the say channel, the fold, its output calls
    node,           \* a Godot node: its fields, its worker's channels, the call it is in
    nw_sampler      \* a NobodyWhoSampler resource: method, sampler_config

vars == <<n_ctx, stop_tokens, chat_template, messages, length,
          h_pc, n_say, n_reset, message_q, completion_q, w_pc, n_past,
          kv, full_response, respond_to, n_gen, gil, out_log, finished,
          fatal, last_cmd, gen_start, shifted,
          p_said, p_message_q, p_completion_q, p_pc, p_response, p_n_gen,
          n_text, text_q, embedding_q, e_pc, e_kv, e_log, said, diffs, cs_last,
          sampler_config, sampler, engine, pooling, cos_last, chat_loop, node, nw_sampler>>

cfgVars == <<n_ctx, stop_tokens, chat_template>>
chatVars == <<messages, length, diffs>>
histVars == <<out_log, finished, fatal, last_cmd, gen_start, shifted>>
peerVars == <<p_said, p_message_q, p_completion_q, p_pc, p_response, p_n_gen>>
embedVars == <<n_text, text_q, embedding_q, e_pc, e_kv, e_log>>
workerVars == <<w_pc, n_past, kv, full_response, respond_to, n_gen, gil, histVars>>
auxVars == <<cs_last, sampler_config, sampler, engine, pooling, cos_last, chat_loop, node, nw_sampler>>

(* ------------------------------ helpers -------------------------------- *)
RECURSIVE Concat(_)
Concat(ss) == IF ss = <<>> THEN <<>> ELSE Head(ss) \o Concat(Tail(ss))

\* str::contains
Contains(t, s) ==
    \E i \in 1..(Len(t) - Len(s) + 1) : SubSeq(t, i, i + Len(s) - 1) = s

\* &text[from..]
SliceFrom(t, from) == SubSeq(t, from + 1, Len(t))

(* ------------------------------ ChatState ------------------------------ *)
Message(role, content) == [role |-> role, content |-> content]

RoleMark(role) == CASE role = "system" -> "S"
                    [] role = "user" -> "U"
                    [] OTHER -> "A"

\* one message as a ChatML-like template prints it: role marker, content, end marker
RenderMessage(m) == <<RoleMark(m.role)>> \o m.content \o <<"E">>

\* the gemma template's check that roles alternate user/assistant/...
RolesAlternate(msgs) ==
    \A i \in 1..Len(msgs) : (msgs[i].role = "user") = ((i - 1) % 2 = 0)

\* tmpl.render(ctx) with add_generation_prompt => true:
\*   "plain"  prints the contents only,
\*   "chatml" prints every message with its markers and then the assistant marker,
\*   "gemma"  is chatml that calls raise_exception for a leading system
\*            message and for roles that do not alternate.
TemplateRender(tmpl, msgs) ==
    LET body == Concat([i \in 1..Len(msgs) |-> RenderMessage(msgs[i])]) \o <<"A">>
    IN  CASE tmpl = "plain" ->
               [err |-> "none", text |-> Concat([i \in 1..Len(msgs) |-> msgs[i].content])]
          [] tmpl = "chatml" -> [err |-> "none", text |-> body]
          [] OTHER ->
               IF msgs # <<>> /\ msgs[1].role = "system"
               THEN [err |-> "System role not supported", text |-> <<>>]
               ELSE IF ~RolesAlternate(msgs)
                    THEN [err |-> "Conversation roles must alternate", text |-> <<>>]
                    ELSE [err |-> "none", text |-> body]

\* the asserts of concat_system_and_first_user_messages
ConcatAssertsHold(msgs) ==
    Len(msgs) >= 2 /\ msgs[1].role = "system" /\ msgs[2].role = "user"

\* mutant of concat_system_and_first_user_messages: the system text is lost
concat_system_and_first_user_messages_DropsSystem(msgs) ==
    <<Message("user", msgs[2].content)>> \o SubSeq(msgs, 3, Len(msgs))

concat_system_and_first_user_messages(msgs) ==
    <<Message("user", msgs[1].content \o <<"\n", "\n">> \o msgs[2].content)>>
        \o SubSeq(msgs, 3, Len(msgs))

\* mutant of render: any failure of the template is tried a second time
RECURSIVE render_RetriesAnyError(_, _)
render_RetriesAnyError(tmpl, msgs) ==
    LET r == TemplateRender(tmpl, msgs)
    IN  IF r.err = "none"
        THEN [err |-> "none", text |-> r.text, messages |-> msgs, renders |-> 1]
        ELSE IF r.err = "System role not supported"
             THEN IF ConcatAssertsHold(msgs)
                  THEN LET again == render_RetriesAnyError(tmpl,
                                        concat_system_and_first_user_messages(msgs))
                       IN  [again EXCEPT !.renders = @ + 1]
                  ELSE [err |-> "panic", text |-> <<>>, messages |-> msgs, renders |-> 1]
             ELSE [err |-> TemplateRender(tmpl, msgs).err, text |-> <<>>,
                   messages |-> msgs, renders |-> 2]

\* ChatState::render: result, the messages it leaves in self.messages, and the
\* number of tmpl.render calls it made
RECURSIVE render(_, _)
render(tmpl, msgs) ==
    LET r == TemplateRender(tmpl, msgs)
    IN  IF r.err = "none"
        THEN [err |-> "none", text |-> r.text, messages |-> msgs, renders |-> 1]
        ELSE IF r.err = "System role not supported"
             THEN IF ConcatAssertsHold(msgs)
                  THEN LET again == render(tmpl, concat_system_and_first_user_messages(msgs))
                       IN  [again EXCEPT !.renders = @ + 1]
                  ELSE [err |-> "panic", text |-> <<>>, messages |-> msgs, renders |-> 1]
             ELSE [err |-> r.err, text |-> <<>>, messages |-> msgs, renders |-> 1]

\* mutant of render_diff: the length of the render is not stored
render_diff_KeepsLength(tmpl, msgs, len) ==
    LET r == render(tmpl, msgs)
    IN  IF r.err # "none"
        THEN [err |-> r.err, diff |-> <<>>, messages |-> r.messages, length |-> len,
              text |-> <<>>, renders |-> r.renders]
        ELSE IF len > Len(r.text)
             THEN [err |-> "panic", diff |-> <<>>, messages |-> r.messages, length |-> len,
                   text |-> r.text, renders |-> r.renders]
             ELSE [err |-> "none", diff |-> SliceFrom(r.text, len),
                   messages |-> r.messages, length |-> len,
                   text |-> r.text, renders |-> r.renders]

\* ChatState::render_diff: the diff, the new messages and length, and the
\* local text and the number of tmpl.render calls behind them
render_diff(tmpl, msgs, len) ==
    LET r == render(tmpl, msgs)
    IN  IF r.err # "none"
        THEN [err |-> r.err, diff |-> <<>>, messages |-> r.messages, length |-> len,
              text |-> <<>>, renders |-> r.renders]
        ELSE IF len > Len(r.text)
             THEN [err |-> "panic", diff |-> <<>>, messages |-> r.messages, length |-> len,
                   text |-> r.text, renders |-> r.renders]
             ELSE [err |-> "none", diff |-> SliceFrom(r.text, len),
                   messages |-> r.messages, length |-> Len(r.text),
                   text |-> r.text, renders |-> r.renders]

\* mutant of add_message: the message is put in front
add_message_Prepends(msgs, role, content) == <<Message(role, content)>> \o msgs

\* ChatState::add_message
add_message(msgs, role, content) == Append(msgs, Message(role, content))

(* ------------------------------ sampler -------------------------------- *)
\* f32 fields are written in thousandths (0.8 is 800)
Greedy == [name |-> "Greedy"]
DRY(seed, dry_multiplier, dry_base, dry_allowed_length, dry_penalty_last_n) ==
    [name |-> "DRY", seed |-> seed, dry_multiplier |-> dry_multiplier, dry_base |-> dry_base,
     dry_allowed_length |-> dry_allowed_length, dry_penalty_last_n |-> dry_penalty_last_n]
TopK(top_k, seed) == [name |-> "TopK", top_k |-> top_k, seed |-> seed]
TopP(seed, min_keep, top_p) ==
    [name |-> "TopP", seed |-> seed, min_keep |-> min_keep, top_p |-> top_p]
MinP(seed, min_keep, min_p) ==
    [name |-> "MinP", seed |-> seed, min_keep |-> min_keep, min_p |-> min_p]
XTC(seed, xtc_probability, xtc_threshold, min_keep) ==
    [name |-> "XTC", seed |-> seed, xtc_probability |-> xtc_probability,
     xtc_threshold |-> xtc_threshold, min_keep |-> min_keep]
TypicalP(seed, typ_p, min_keep) ==
    [name |-> "TypicalP", seed |-> seed, typ_p |-> typ_p, min_keep |-> min_keep]
Temperature(seed, temperature) ==
    [name |-> "Temperature", seed |-> seed, temperature |-> temperature]
MirostatV1(seed, temperature, tau, eta) ==
    [name |-> "MirostatV1", seed |-> seed, temperature |-> temperature,
     tau |-> tau, eta |-> eta]
MirostatV2(seed, temperature, tau, eta) ==
    [name |-> "MirostatV2", seed |-> seed, temperature |-> temperature,
     tau |-> tau, eta |-> eta]

\* every variant of SamplerMethod: with its Default values, and with other values
SamplerMethods ==
    {Greedy,
     DRY(1234, 0, 1750, 2, -1),           DRY(7, 500, 2000, 3, 64),
     TopK(40, 1234),                      TopK(10, 7),
     TopP(1234, 0, 950),                  TopP(7, 1, 500),
     MinP(1234, 0, 50),                   MinP(7, 1, 100),
     XTC(1234, 0, 100, 0),                XTC(7, 500, 200, 1),
     TypicalP(1234, 1000, 0),             TypicalP(7, 900, 1),
     Temperature(1234, 800),              Temperature(7, 1200),
     MirostatV1(1234, 800, 5000, 100),    MirostatV1(7, 1200, 4000, 200),
     MirostatV2(1234, 800, 5000, 100),    MirostatV2(7, 1200, 4000, 200)}

SamplerConfig(method, penalty_last_n, penalty_repeat, penalty_freq, penalty_present) ==
    [method |-> method, penalty_last_n |-> penalty_last_n, penalty_repeat |-> penalty_repeat,
     penalty_freq |-> penalty_freq, penalty_present |-> penalty_present]

\* impl Default for SamplerConfig
DefaultSamplerConfig == SamplerConfig(MirostatV2(1234, 800, 5000, 100), -1, 0, 0, 0)

SamplerConfigs ==
    {SamplerConfig(method, last_n, repeat, freq, present) :
        method \in SamplerMethods, last_n \in {-1, 64}, repeat \in {0, 1100},
        freq \in {0, 100}, present \in {0, 200}}

\* model.n_vocab()
n_vocab == Len(Vocab) + 2

\* mutant of penalties: two of the penalties change places
penalties_SwapsFreqAndPresent(conf) ==
    [stage |-> "penalties", penalty_last_n |-> conf.penalty_last_n,
     penalty_repeat |-> conf.penalty_repeat, penalty_freq |-> conf.penalty_present,
     penalty_present |-> conf.penalty_freq]

\* LlamaSampler::penalties(..)
penalties(conf) ==
    [stage |-> "penalties", penalty_last_n |-> conf.penalty_last_n,
     penalty_repeat |-> conf.penalty_repeat, penalty_freq |-> conf.penalty_freq,
     penalty_present |-> conf.penalty_present]

\* LlamaSampler::dist(seed)
dist(seed) == [stage |-> "dist", seed |-> seed]
\* LlamaSampler::temp(t)
temp(t) == [stage |-> "temp", t |-> t]

\* make_sampler: the stages handed to LlamaSampler::chain, in order
make_sampler(conf) ==
    LET m == conf.method
    IN  CASE m.name = "Greedy" -> <<penalties(conf), [stage |-> "greedy"]>>
          [] m.name = "DRY" ->
               <<penalties(conf),
                 [stage |-> "dry", multiplier |-> m.dry_multiplier, base |-> m.dry_base,
                  allowed_length |-> m.dry_allowed_length,
                  penalty_last_n |-> m.dry_penalty_last_n,
                  seq_breakers |-> <<"\n", ":", "\"", "*">>],
                 dist(m.seed)>>
          [] m.name = "TopK" ->
               <<penalties(conf), [stage |-> "top_k", k |-> m.top_k], dist(m.seed)>>
          [] m.name = "TopP" ->
               <<penalties(conf), [stage |-> "top_p", p |-> m.top_p, min_keep |-> m.min_keep],
                 dist(m.seed)>>
          [] m.name = "MinP" ->
               <<penalties(conf), [stage |-> "top_p", p |-> m.min_p, min_keep |-> m.min_keep],
                 dist(m.seed)>>
          [] m.name = "XTC" ->
               <<penalties(conf),
                 [stage |-> "xtc", p |-> m.xtc_probability, t |-> m.xtc_threshold,
                  min_keep |-> m.min_keep, seed |-> m.seed],
                 dist(m.seed)>>
          [] m.name = "TypicalP" ->
               <<penalties(conf), [stage |-> "typical", p |-> m.typ_p, min_keep |-> m.min_keep],
                 dist(m.seed)>>
          [] m.name = "Temperature" ->
               <<penalties(conf), temp(m.temperature), dist(m.seed)>>
          [] m.name = "MirostatV1" ->
               <<penalties(conf), temp(m.temperature),
                 [stage |-> "mirostat", n_vocab |-> n_vocab, seed |-> m.seed,
                  tau |-> m.tau, eta |-> m.eta, m |-> 100]>>
          [] OTHER ->
               <<penalties(conf), temp(m.temperature),
                 [stage |-> "mirostat_v2", seed |-> m.seed, tau |-> m.tau, eta |-> m.eta]>>

\* The engine is deterministic: the logits are a function of the context. Here
\* the token with the top logit is a function of the newest token of the
\* context; after MaxGen samples it is the end marker.
ContextToks == {TokenOf("a"), BadTok}
Engines == [ContextToks -> SampleToks]
DefaultEngine == [t \in ContextToks |-> EogTok]

ArgMax(e, cache, n) ==
    IF n >= MaxGen \/ cache = <<>> \/ cache[Len(cache)].tok \notin DOMAIN e
    THEN EogTok
    ELSE e[cache[Len(cache)].tok]

\* mutant of sample: the greedy stage is taken for a stage that draws
sample_GreedyDraws(chain, e, cache, n) == SampleToks

\* state.sampler.sample(&state.ctx, -1): the tokens the chain can return. The
\* greedy stage returns the token with the top logit; every other final stage
\* draws.
sample(chain, e, cache, n) ==
    IF chain # <<>> /\ chain[Len(chain)].stage = "greedy"
    THEN {ArgMax(e, cache, n)}
    ELSE SampleToks

(* ------------------------- cosine similarity --------------------------- *)
\* f32 values are fixed-point numbers: vector components are whole numbers,
\* a norm is kept in hundredths and a similarity in thousandths; every
\* operation rounds down to the next representable value.
RECURSIVE Sum(_)
Sum(xs) == IF xs = <<>> THEN 0 ELSE Head(xs) + Sum(Tail(xs))

\* a.iter().zip(b.iter()): as long as the shorter of the two
Zip(a, b) ==
    LET n == IF Len(a) <= Len(b) THEN Len(a) ELSE Len(b)
    IN  [i \in 1..n |-> <<a[i], b[i]>>]

\* dotproduct: assert!(a.len() == b.len()), then the sum of the products
dotproduct(a, b) ==
    [panic |-> Len(a) # Len(b),
     value |-> Sum([i \in 1..Len(Zip(a, b)) |-> Zip(a, b)[i][1] * Zip(a, b)[i][2]])]

\* f32::sqrt, in hundredths
sqrt(x) == CHOOSE r \in 0..(100 * x + 1) : r * r <= 10000 * x /\ (r + 1) * (r + 1) > 10000 * x

NaN == [panic |-> FALSE, nan |-> TRUE, value |-> 0]
Panicked == [panic |-> TRUE, nan |-> FALSE, value |-> 0]

\* mutant of cosine_similarity: the divisor is the first norm twice
cosine_similarity_DividesByNormATwice(a, b) ==
    LET norm_a == sqrt(dotproduct(a, a).value)
        norm_b == sqrt(dotproduct(b, b).value)
    IN  IF norm_a = 0 \/ norm_b = 0 THEN NaN
        ELSE IF dotproduct(a, b).panic THEN Panicked
        ELSE [panic |-> FALSE, nan |-> FALSE,
              value |-> (dotproduct(a, b).value * 10000000) \div (norm_a * norm_a)]

\* cosine_similarity, in thousandths
cosine_similarity(a, b) ==
    LET norm_a == sqrt(dotproduct(a, a).value)
        norm_b == sqrt(dotproduct(b, b).value)
    IN  IF norm_a = 0 \/ norm_b = 0 THEN NaN
        ELSE IF dotproduct(a, b).panic THEN Panicked
        ELSE [panic |-> FALSE, nan |-> FALSE,
              value |-> (dotproduct(a, b).value * 10000000) \div (norm_a * norm_b)]

Components == {-2, 0, 1}
Vectors == UNION {[1..n -> Components] : n \in 1..MaxDim}

NoCosine == [a |-> <<>>, b |-> <<>>, ret |-> NaN]

(* --------------------------- engine primitives ------------------------- *)
\* model.str_to_token(text, AddBos::Never): fails on an interior NUL
CanTokenize(text) == \A i \in 1..Len(text) : text[i] # NUL
\* characters outside the vocabulary fall to the byte-fallback token
str_to_token(text) ==
    [i \in 1..Len(text) |->
        IF \E j \in 1..Len(Vocab) : Vocab[j] = text[i] THEN TokenOf(text[i]) ELSE BadTok]

\* mutant of token_to_str: a token without text of its own yields the empty string
token_to_str_DropsUndecodable(tok) == IF tok \in 1..Len(Vocab) THEN <<Vocab[tok]>> ELSE <<>>

\* model.token_to_str_with_size(..).unwrap_or("\u{FFFD}")
token_to_str(tok) == IF tok \in 1..Len(Vocab) THEN <<Vocab[tok]>> ELSE <<REPLACEMENT>>

\* mutant of is_eog_token: the test looks at the wrong token
is_eog_token_WrongToken(tok) == tok = BadTok

is_eog_token(tok) == tok = EogTok

\* ctx.get_kv_cache_token_count()
get_kv_cache_token_count(cache) == Len(cache)

\* mutant of add_sequence: the positions start one too far
add_sequence_OffByOne(tokens, pos) ==
    [i \in 1..Len(tokens) |-> [pos |-> pos + i, tok |-> tokens[i]]]

\* add_sequence: the batch holds tokens[i] at position pos + i - 1
add_sequence(tokens, pos) ==
    [i \in 1..Len(tokens) |-> [pos |-> pos + i - 1, tok |-> tokens[i]]]

\* ctx.decode(batch) finds no free cell when the batch does not fit
DecodeFits(cache, batch, cap) == Len(batch) >= 1 /\ Len(cache) + Len(batch) <= cap
decode(cache, batch) == cache \o batch

\* mutant of clear_kv_cache_seq: the range is taken to include p1
clear_kv_cache_seq_Inclusive(cache, p0, p1) ==
    SelectSeq(cache, LAMBDA c : ~(c.pos >= p0 /\ c.pos <= p1))

\* ctx.clear_kv_cache_seq(Some(0), Some(p0), Some(p1)): drops the cells in [p0, p1)
clear_kv_cache_seq(cache, p0, p1) ==
    SelectSeq(cache, LAMBDA c : ~(c.pos >= p0 /\ c.pos < p1))

\* ctx.kv_cache_seq_add(0, Some(p0), Some(p1), delta): moves the cells in [p0, p1)
kv_cache_seq_add(cache, p0, p1, delta) ==
    [i \in 1..Len(cache) |->
        IF cache[i].pos >= p0 /\ cache[i].pos < p1
        THEN [cache[i] EXCEPT !.pos = @ + delta] ELSE cache[i]]

\* mutant of apply_context_shifting: the newest half is deleted, not the oldest
apply_context_shifting_DropsNewest(cache, past) ==
    LET n_keep == 0
        n_left == past - n_keep
        n_discard == n_left \div 2
        cleared == clear_kv_cache_seq(cache, past - n_discard, past)
    IN  [n_discard |-> n_discard, kv |-> cleared]

\* apply_context_shifting: the discard count and the cache it leaves
apply_context_shifting(cache, past) ==
    LET n_keep == 0
        n_left == past - n_keep
        n_discard == n_left \div 2
        cleared == clear_kv_cache_seq(cache, n_keep, n_keep + n_discard)
    IN  [n_discard |-> n_discard,
         kv |-> kv_cache_seq_add(cleared, n_keep + n_discard, past, -n_discard)]

\* mutant of NeedsShift: the check fires one token late
NeedsShift_OneLate(past, cap) == past >= cap

\* the condition of the overflow check at the head of the generation loop
NeedsShift(past, cap) == past >= cap - 1

\* stop_tokens.iter().any(|s| full_response.contains(s))
has_stop_tokens(stops, response) == \E s \in stops : Contains(response, s)

(* ------------------------------ channels ------------------------------- *)
\* id is the turn (the say call) a command belongs to; 0 for none
ReadString(text, id) == [type |-> "ReadString", text |-> text, id |-> id]
WriteUntilDone(id) == [type |-> "WriteUntilDone", text |-> <<>>, id |-> id]
ResetContext == [type |-> "ResetContext", text |-> <<>>, id |-> 0]

Token(text, id) == [type |-> "Token", text |-> text, id |-> id]
Done(text, id) == [type |-> "Done", text |-> text, id |-> id]

\* what out_log keeps of an event
Logged(ev) == [type |-> ev.type, id |-> ev.id]

\* the worker thread has ended, so message_rx is gone
WorkerGone == w_pc \in {"dead", "panicked", "exited"}
\* the Handle, and with it completion_rx and the Handle's completion_tx, is gone
HandleGone == h_pc = "dropped"

\* live Sender<LLMOutput> values: the Handle's own, the clones queued in
\* WriteUntilDone commands, and the clone the running WriteUntilDone holds
CompletionSenders ==
    (IF HandleGone THEN 0 ELSE 1)
    + Cardinality({i \in 1..Len(message_q) : message_q[i].type = "WriteUntilDone"})
    + (IF respond_to # 0 THEN 1 ELSE 0)

NoError == [kind |-> "none", id |-> 0]

(* --------------------------- the Godot nodes --------------------------- *)
\* the nodes of the host layer that own a worker: NobodyWhoChat,
\* NobodyWhoEmbedding, and NobodyWhoPromptCompletion of the earlier crate
NodeKinds == {"chat", "embedding", "completion"}

\* a Godot Variant: a type tag and a value
Variant(type, v) == [type |-> type, v |-> v]

\* the configuration a worker is started with (none: no worker yet)
NoParams == [method |-> [name |-> "none"]]

\* INode::init. model_node, loads and sampler are what the scene sets on the
\* node: a model node is attached, its model can be handed out, a sampler
\* resource is attached.
NewNode(kind, model_node, loads, has_sampler) ==
    [kind |-> kind, model_node |-> model_node, loads |-> loads, sampler |-> has_sampler,
     tx |-> FALSE, rx |-> FALSE, inbox |-> <<>>, chan |-> <<>>, worker |-> "none",
     n_out |-> 0, params |-> NoParams,
     pc |-> "idle", op |-> "none", arg |-> <<>>, cold |-> FALSE, ret |-> "none",
     starts |-> 0, errors |-> 0, passes |-> 0, forwarded |-> 0, reports |-> 0]

\* IResource::init of NobodyWhoSampler
SamplerMethodNames == {"Greedy", "Temperature", "MirostatV2"}
NewSampler ==
    [method |-> DefaultSamplerConfig.method.name, sampler_config |-> DefaultSamplerConfig,
     ret |-> "none"]

\* NobodyWhoSampler::set_property: "true", or "panic" with the resource as it was
set_property(res, property, value) ==
    LET name == res.sampler_config.method.name
        done(r) == [r EXCEPT !.ret = "true"]
        panic == [res EXCEPT !.ret = "panic"]
    IN  CASE property = "method" ->
               IF value.type = "String" /\ value.v \in SamplerMethodNames
               THEN done([res EXCEPT !.method = value.v])
               ELSE panic
          [] property = "penalty_last_n" ->
               IF value.type = "int"
               THEN done([res EXCEPT !.sampler_config.penalty_last_n = value.v])
               ELSE panic
          [] property \in {"penalty_repeat", "penalty_freq", "penalty_present"} ->
               IF value.type = "float"
               THEN done([res EXCEPT !.sampler_config[property] = value.v])
               ELSE panic
          [] property = "seed" /\ name \in {"Temperature", "MirostatV2"} ->
               IF value.type = "int"
               THEN done([res EXCEPT !.sampler_config.method.seed = value.v])
               ELSE panic
          [] property = "temperature" /\ name \in {"Temperature", "MirostatV2"} ->
               IF value.type = "float"
               THEN done([res EXCEPT !.sampler_config.method.temperature = value.v])
               ELSE panic
          [] property \in {"tau", "eta"} /\ name = "MirostatV2" ->
               IF value.type = "float"
               THEN done([res EXCEPT !.sampler_config.method[property] = value.v])
               ELSE panic
          [] OTHER -> panic

\* NobodyWhoChat::get_model, NobodyWhoEmbedding::get_model: TRUE for Ok
get_model(n) == n.model_node /\ n.loads

\* NobodyWhoChat::get_sampler_config
get_sampler_config(n, res) ==
    IF n.sampler THEN res.sampler_config ELSE DefaultSamplerConfig

\* start_worker of NobodyWhoChat and NobodyWhoEmbedding, run of
\* NobodyWhoPromptCompletion: new channels and a new worker thread, or an
\* error message and the node as it was
start_worker(n, res) ==
    IF get_model(n)
    THEN [n EXCEPT !.tx = TRUE, !.rx = TRUE, !.inbox = <<>>, !.chan = <<>>,
                   !.worker = "running", !.n_out = 0, !.reports = 0,
                   !.params = IF n.kind = "chat" THEN get_sampler_config(n, res) ELSE NoParams,
                   !.starts = @ + 1]
    ELSE [n EXCEPT !.errors = @ + 1, !.starts = @ + 1]

\* send_message of NobodyWhoChat, embed of NobodyWhoEmbedding, prompt of
\* NobodyWhoPromptCompletion. depth is the number of frames of the function
\* on the stack; a stack that holds no further frame ends the process.
RECURSIVE send_message(_, _, _, _)
send_message(n, res, content, depth) ==
    IF n.tx
    THEN IF n.worker = "running"
         THEN [n EXCEPT !.inbox = Append(@, content), !.ret = "returned"]
         ELSE IF n.kind = "embedding"
         THEN [n EXCEPT !.errors = @ + 1, !.ret = "returned"]
         ELSE [n EXCEPT !.ret = "panic"]
    ELSE IF n.kind = "completion"
    THEN [n EXCEPT !.errors = @ + 1, !.ret = "returned"]
    ELSE IF depth >= MaxStack
    THEN [start_worker(n, res) EXCEPT !.pc = "aborted", !.ret = "overflow"]
    ELSE send_message(start_worker(n, res), res, content, depth + 1)

\* one pass of the loop of physics_process, with the test that precedes it
physics_pass(n) ==
    LET pass(m) == [m EXCEPT !.passes = IF @ < MaxSpin THEN @ + 1 ELSE @]
        return(m) == [m EXCEPT !.pc = "idle", !.ret = "returned"]
        report(m) == [m EXCEPT !.reports = IF @ < MaxSpin THEN @ + 1 ELSE @]
        ev == Head(n.chan)
        taken == [n EXCEPT !.chan = Tail(@), !.forwarded = @ + 1]
    IN  IF ~n.rx
        THEN IF n.kind = "completion" THEN pass(n) ELSE return(n)
        ELSE IF n.chan # <<>>
        THEN IF n.kind = "embedding" /\ ev = "FatalError"
             THEN pass([taken EXCEPT !.rx = FALSE, !.errors = @ + 1])
             ELSE IF ev = "FatalErr"
             THEN pass([taken EXCEPT !.errors = @ + 1])
             ELSE pass(taken)
        ELSE IF n.worker = "running"
        THEN return(pass(n))
        ELSE IF n.kind = "completion"
        THEN pass(report(n))
        ELSE pass(report([n EXCEPT !.rx = FALSE]))

HostInit ==
    /\ node = NewNode("chat", FALSE, FALSE, FALSE)
    /\ nw_sampler = NewSampler

(* -------------------------------- Init --------------------------------- *)
\* ChatState::new, before any call
NoCall == [op |-> "new", err |-> "none", diff |-> <<>>, text |-> <<>>, renders |-> 0,
           messages |-> <<>>, length |-> 0, prev_op |-> "none", prev_err |-> "none"]

\* Option<Result<String, _>>: the accumulator of the fold
None == [some |-> FALSE, ok |-> FALSE, text |-> <<>>]
SomeOk(resp) == [some |-> TRUE, ok |-> TRUE, text |-> resp]
SomeErr == [some |-> TRUE, ok |-> FALSE, text |-> <<>>]

\* simple_chat_loop has made its ChatState and its actor and awaits say_rx.recv()
LoopStart == [pc |-> "recv", say_q |-> <<>>, say_open |-> TRUE, n_sent |-> 0, turn |-> 0,
              acc |-> None, items |-> <<>>, out |-> <<>>, ret |-> "none"]

AuxInit ==
    /\ cs_last = NoCall
    /\ sampler_config = DefaultSamplerConfig
    /\ sampler = <<>>
    /\ engine = DefaultEngine
    /\ pooling = TRUE
    /\ cos_last = NoCosine
    /\ chat_loop = LoopStart
    /\ HostInit

SessionInit ==
    /\ n_ctx \in 1..MaxCtx
    /\ stop_tokens = StopTokens
    /\ chat_template \in Templates
    /\ messages \in {<<>>, <<Message("system", SystemPrompt)>>}
    /\ length = 0
    /\ h_pc = "idle"
    /\ n_say = 0
    /\ n_reset = 0
    /\ message_q = <<>>
    /\ completion_q = <<>>
    /\ w_pc = "idle"
    /\ n_past = 0
    /\ kv = <<>>
    /\ full_response = <<>>
    /\ respond_to = 0
    /\ n_gen = 0
    /\ gil = "free"
    /\ out_log = <<>>
    /\ finished = {}
    /\ fatal = NoError
    /\ last_cmd = "none"
    /\ gen_start = -1
    /\ shifted = FALSE
    /\ p_said = FALSE
    /\ p_message_q = <<>>
    /\ p_completion_q = <<>>
    /\ p_pc = "idle"
    /\ p_response = <<>>
    /\ p_n_gen = 0
    /\ n_text = 0
    /\ text_q = <<>>
    /\ embedding_q = <<>>
    /\ e_pc = "idle"
    /\ e_kv = <<>>
    /\ e_log = <<>>
    /\ said = <<>>
    /\ diffs = <<>>

Init == SessionInit /\ AuxInit

(* ------------------------------- Handle -------------------------------- *)
\* mutant of say_commands: the two commands are sent in the other order
say_commands_Swapped(diff, id) == <<WriteUntilDone(id), ReadString(diff, id)>>

\* the two message_tx.send calls of say, in their order
say_commands(diff, id) == <<ReadString(diff, id), WriteUntilDone(id)>>

\* what say returns: the ? after render_diff, then the ? after the sends
say_result(render_err, receiver_gone) ==
    IF render_err # "none" THEN "TemplateError"
    ELSE IF receiver_gone THEN "SendError" ELSE "Ok"

\* LLMActorHandle::say
Say(text) ==
    /\ h_pc = "idle"
    /\ n_say + n_reset < MaxCalls
    /\ n_say' = n_say + 1
    /\ LET rd == render_diff(chat_template, add_message(messages, "user", text), length)
       IN  /\ messages' = rd.messages
           /\ length' = rd.length
           /\ diffs' = diffs \o rd.diff
           /\ said' = Append(said, say_result(rd.err, WorkerGone))
           /\ IF say_result(rd.err, WorkerGone) # "Ok"
              THEN UNCHANGED message_q
              ELSE message_q' = message_q \o say_commands(rd.diff, n_say + 1)
    /\ UNCHANGED <<cfgVars, auxVars, peerVars, embedVars, h_pc, n_reset, completion_q, workerVars>>

\* mutant of handle_llmoutput: the assistant message is added without render_diff
handle_llmoutput_NoRender(out) ==
    IF out.type = "Done"
    THEN [err |-> "none", diff |-> <<>>,
          messages |-> add_message(messages, "assistant", out.text), length |-> length]
    ELSE [err |-> "none", diff |-> <<>>, messages |-> messages, length |-> length]

\* LLMActorHandle::handle_llmoutput: the chat state after event out
handle_llmoutput(out) ==
    IF out.type = "Done"
    THEN render_diff(chat_template, add_message(messages, "assistant", out.text), length)
    ELSE [err |-> "none", diff |-> <<>>, messages |-> messages, length |-> length]

\* completion_rx.recv() has an event: take it and fold it into the chat state;
\* a failing render_diff panics the calling thread, which drops the Handle;
\* loops is TRUE for get_response_blocking, which keeps receiving after a Token
TakeEvent(loops) ==
    LET out == Head(completion_q)
        st == handle_llmoutput(out)
    IN  /\ messages' = st.messages
        /\ length' = st.length
        /\ diffs' = diffs \o st.diff
        /\ IF st.err # "none"
           THEN /\ h_pc' = "dropped"
                /\ completion_q' = <<>>
           ELSE /\ h_pc' = IF loops /\ out.type \notin {"Done", "FatalErr"} THEN "grb" ELSE "idle"
                /\ completion_q' = Tail(completion_q)

\* LLMActorHandle::recv: blocks while the channel is empty and a sender lives
Recv ==
    /\ h_pc \in {"idle", "recv"}
    /\ IF completion_q # <<>>
       THEN TakeEvent(FALSE)
       ELSE /\ h_pc = "idle"
            /\ h_pc' = "recv"
            /\ UNCHANGED <<messages, length, diffs, completion_q>>
    /\ UNCHANGED <<cfgVars, auxVars, peerVars, embedVars, said, n_say, n_reset, message_q, workerVars>>

\* LLMActorHandle::get_response_blocking: recv until Done or FatalErr
GetResponseBlocking ==
    /\ h_pc \in {"idle", "grb"}
    /\ IF completion_q # <<>>
       THEN TakeEvent(TRUE)
       ELSE /\ h_pc = "idle"
            /\ h_pc' = "grb"
            /\ UNCHANGED <<messages, length, diffs, completion_q>>
    /\ UNCHANGED <<cfgVars, auxVars, peerVars, embedVars, said, n_say, n_reset, message_q, workerVars>>

\* LLMActorHandle::try_recv
TryRecv ==
    /\ h_pc = "idle"
    /\ IF completion_q # <<>>
       THEN TakeEvent(FALSE)
       ELSE UNCHANGED <<messages, length, diffs, h_pc, completion_q>>   \* Err(Empty)
    /\ UNCHANGED <<cfgVars, auxVars, peerVars, embedVars, said, n_say, n_reset, message_q, workerVars>>

\* the Handle goes out of scope: message_tx, completion_rx and completion_tx drop
DropHandle ==
    /\ h_pc = "idle"
    /\ h_pc' = "dropped"
    /\ completion_q' = <<>>
    /\ UNCHANGED <<cfgVars, auxVars, peerVars, embedVars, said, chatVars, n_say, n_reset, message_q, workerVars>>

\* a WorkerMsg::ResetContext is sent on the command channel
SendResetContext ==
    /\ h_pc = "idle"
    /\ ~WorkerGone
    /\ n_say + n_reset < MaxCalls
    /\ n_reset' = n_reset + 1
    /\ message_q' = Append(message_q, ResetContext)
    /\ UNCHANGED <<cfgVars, auxVars, peerVars, embedVars, said, chatVars, h_pc, n_say, completion_q, workerVars>>

(* ------------------------------- Worker -------------------------------- *)
\* mutant of CanLock: the lock is handed out whoever holds it
CanLock_Always(g) == TRUE

\* GLOBAL_INFERENCE_LOCK.lock() returns a guard only while no thread holds one
CanLock(g) == g = "free"

\* mutant of HeldUntilReturn: the guard is dropped at the end of each iteration
HeldUntilReturn_PerToken(g) == "free"

\* the guard _inference_lock lives until handle_msg returns: a step inside a
\* command leaves the lock with its holder
HeldUntilReturn(g) == g

\* mutant of WorkerEnds: the failed command is skipped and the loop goes on
WorkerEnds_SkipsCommand(kind) ==
    /\ w_pc' = "idle"
    /\ gil' = "free"
    /\ fatal' = [kind |-> kind, id |-> IF respond_to # 0 THEN respond_to ELSE Head(message_q).id]
    /\ message_q' = IF respond_to # 0 THEN message_q ELSE Tail(message_q)
    /\ n_past' = n_past
    /\ kv' = kv
    /\ full_response' = <<>>
    /\ respond_to' = 0
    /\ n_gen' = n_gen

\* handle_msg returned Err(kind) (or panicked): completion_worker_actor returns,
\* which drops message_rx with the queued commands, the WorkerState and the
\* lock guard; a panic while the guard is held poisons the lock
WorkerEnds(kind) ==
    /\ w_pc' = IF kind = "panic" THEN "panicked" ELSE "dead"
    /\ gil' = IF kind = "panic" \/ gil = "poisoned" THEN "poisoned" ELSE "free"
    /\ fatal' = [kind |-> kind, id |-> IF respond_to # 0 THEN respond_to ELSE Head(message_q).id]
    /\ message_q' = <<>>
    /\ n_past' = 0
    /\ kv' = <<>>
    /\ full_response' = <<>>
    /\ respond_to' = 0
    /\ n_gen' = 0

\* the debug_assert!s of the ReadString arm: a build with debug assertions
\* panics where they fail, a release build goes on
ReadAssertsHold(tokens) == Len(tokens) > 0 /\ Len(tokens) < n_ctx

\* the ReadString arm's add_sequence, decode and Ok(WorkerState { n_past: .. })
read_string(past, cache, tokens) ==
    [n_past |-> past + Len(tokens), kv |-> decode(cache, add_sequence(tokens, past))]

\* handle_msg, WorkerMsg::ReadString
HandleReadString ==
    /\ w_pc = "idle"
    /\ CanLock(gil)
    /\ message_q # <<>>
    /\ Head(message_q).type = "ReadString"
    /\ last_cmd' = "ReadString"
    /\ LET text == Head(message_q).text
           tokens == str_to_token(text)
           st == read_string(n_past, kv, tokens)
       IN  IF ~CanTokenize(text)
           THEN WorkerEnds("TokenizerError")
           ELSE \/ /\ ~ReadAssertsHold(tokens)
                   /\ WorkerEnds("panic")
                \/ IF Len(tokens) > n_ctx
                   THEN WorkerEnds("BatchAddError")
                   ELSE IF ~DecodeFits(kv, add_sequence(tokens, n_past), n_ctx)
                   THEN WorkerEnds("DecodeError")
                   ELSE /\ kv' = st.kv
                        /\ n_past' = st.n_past
                        /\ message_q' = Tail(message_q)
                        /\ UNCHANGED <<w_pc, gil, full_response, respond_to, n_gen, fatal>>
    /\ UNCHANGED <<cfgVars, auxVars, peerVars, embedVars, said, chatVars, h_pc, n_say, n_reset, completion_q,
                   out_log, finished, gen_start, shifted>>

\* handle_msg when another thread has panicked with the lock held: lock()
\* returns the poison error and the command fails with GILPoisonError
HandleLockPoisoned ==
    /\ w_pc = "idle"
    /\ message_q # <<>>
    /\ gil = "poisoned"
    /\ last_cmd' = Head(message_q).type
    /\ WorkerEnds("GILPoisonError")
    /\ UNCHANGED <<cfgVars, auxVars, peerVars, embedVars, said, chatVars, h_pc, n_say, n_reset,
                   completion_q, out_log, finished, gen_start, shifted>>

\* mutant of reset_context: the counter is not reset
reset_context_KeepsCount(past, cache) == [n_past |-> past, kv |-> <<>>]

\* the ResetContext arm: ctx.clear_kv_cache() and n_past = 0
reset_context(past, cache) == [n_past |-> 0, kv |-> <<>>]

\* handle_msg, WorkerMsg::ResetContext
HandleResetContext ==
    /\ w_pc = "idle"
    /\ CanLock(gil)
    /\ message_q # <<>>
    /\ Head(message_q).type = "ResetContext"
    /\ last_cmd' = "ResetContext"
    /\ message_q' = Tail(message_q)
    /\ kv' = reset_context(n_past, kv).kv
    /\ n_past' = reset_context(n_past, kv).n_past
    /\ UNCHANGED <<cfgVars, auxVars, peerVars, embedVars, said, chatVars, h_pc, n_say, n_reset, completion_q,
                   w_pc, full_response, respond_to, n_gen, gil,
                   out_log, finished, fatal, gen_start, shifted>>

\* mutant of StartWriteUntilDone: the newest queued command is taken, not the oldest
StartWriteUntilDone_TakesNewest ==
    /\ w_pc = "idle"
    /\ CanLock(gil)
    /\ message_q # <<>>
    /\ message_q[Len(message_q)].type = "WriteUntilDone"
    /\ last_cmd' = "WriteUntilDone"
    /\ message_q' = SubSeq(message_q, 1, Len(message_q) - 1)
    /\ gil' = "chat"
    /\ w_pc' = "gen"
    /\ respond_to' = message_q[Len(message_q)].id
    /\ full_response' = <<>>
    /\ gen_start' = n_past
    /\ shifted' = FALSE
    /\ UNCHANGED <<cfgVars, auxVars, peerVars, embedVars, said, chatVars, h_pc, n_say, n_reset, completion_q,
                   n_past, kv, n_gen, out_log, finished, fatal>>

\* handle_msg, WorkerMsg::WriteUntilDone: take the lock and enter the loop
StartWriteUntilDone ==
    /\ w_pc = "idle"
    /\ CanLock(gil)
    /\ message_q # <<>>
    /\ Head(message_q).type = "WriteUntilDone"
    /\ last_cmd' = "WriteUntilDone"
    /\ message_q' = Tail(message_q)
    /\ gil' = "chat"
    /\ w_pc' = "gen"
    /\ respond_to' = Head(message_q).id
    /\ full_response' = <<>>
    /\ gen_start' = n_past
    /\ shifted' = FALSE
    /\ UNCHANGED <<cfgVars, auxVars, peerVars, embedVars, said, chatVars, h_pc, n_say, n_reset, completion_q,
                   n_past, kv, n_gen, out_log, finished, fatal>>

\* the overflow check at the head of the loop fires
ContextShift ==
    /\ w_pc = "gen"
    /\ NeedsShift(n_past, n_ctx)
    /\ shifted' = TRUE
    /\ LET r == apply_context_shifting(kv, n_past)
           mid == clear_kv_cache_seq(kv, 0, r.n_discard)
       IN  \/ /\ ~(/\ n_past = get_kv_cache_token_count(kv)
                   /\ n_past - r.n_discard = get_kv_cache_token_count(mid)
                   /\ n_past - r.n_discard = get_kv_cache_token_count(r.kv))
              /\ WorkerEnds("panic")
           \/ /\ n_past' = n_past - r.n_discard
              /\ kv' = r.kv
              /\ w_pc' = "sample"
              /\ UNCHANGED <<message_q, full_response, respond_to, n_gen, gil, fatal>>
    /\ UNCHANGED <<cfgVars, auxVars, peerVars, embedVars, said, chatVars, h_pc, n_say, n_reset, completion_q,
                   out_log, finished, last_cmd, gen_start>>

\* what one loop iteration sends: the token's text unless the token is the end marker
emitted(has_eog, output_string, id) ==
    IF ~has_eog THEN <<Token(output_string, id)>> ELSE <<>>

\* the loop's break condition
loop_breaks(has_eog, has_stop) == has_eog \/ has_stop

\* mutant of SampleAndEmit: the text of the end marker is appended to the response
SampleAndEmit_AppendsEndMarker(new_token) ==
    /\ \/ w_pc = "sample"
       \/ w_pc = "gen" /\ ~NeedsShift(n_past, n_ctx)
    /\ n_gen >= MaxGen => new_token = EogTok
    /\ LET batch == <<[pos |-> n_past, tok |-> new_token]>>
           output_string == token_to_str(new_token)
           has_stop == has_stop_tokens(stop_tokens, full_response)
           has_eog == is_eog_token(new_token)
           sends == emitted(has_eog, output_string, respond_to)
       IN  IF ~DecodeFits(kv, batch, n_ctx)
           THEN WorkerEnds("DecodeError") /\ UNCHANGED <<completion_q, out_log>>
           ELSE IF sends # <<>> /\ HandleGone
           THEN WorkerEnds("SendError") /\ UNCHANGED <<completion_q, out_log>>
           ELSE /\ kv' = decode(kv, batch)
                /\ n_past' = n_past + 1
                /\ n_gen' = n_gen + 1
                /\ full_response' = full_response \o output_string
                /\ completion_q' = completion_q \o sends
                /\ out_log' = out_log \o [i \in 1..Len(sends) |-> Logged(sends[i])]
                /\ w_pc' = IF loop_breaks(has_eog, has_stop) THEN "done" ELSE "gen"
                /\ UNCHANGED <<message_q, respond_to, gil, fatal>>
    /\ UNCHANGED <<cfgVars, auxVars, peerVars, embedVars, said, chatVars, h_pc, n_say, n_reset, finished,
                   last_cmd, gen_start, shifted>>

\* the rest of one loop iteration: sample, commit, detokenize, check, emit
SampleAndEmit(new_token) ==
    /\ \/ w_pc = "sample"
       \/ w_pc = "gen" /\ ~NeedsShift(n_past, n_ctx)
    /\ n_gen >= MaxGen => new_token = EogTok
    /\ LET batch == <<[pos |-> n_past, tok |-> new_token]>>
           output_string == token_to_str(new_token)
           has_stop == has_stop_tokens(stop_tokens, full_response)
           has_eog == is_eog_token(new_token)
           sends == emitted(has_eog, output_string, respond_to)
       IN  IF ~DecodeFits(kv, batch, n_ctx)
           THEN WorkerEnds("DecodeError") /\ UNCHANGED <<completion_q, out_log>>
           ELSE IF sends # <<>> /\ HandleGone
           THEN WorkerEnds("SendError") /\ UNCHANGED <<completion_q, out_log>>
           ELSE /\ kv' = decode(kv, batch)
                /\ n_past' = n_past + 1
                /\ n_gen' = n_gen + 1
                /\ full_response' = full_response \o Concat([i \in 1..Len(sends) |-> sends[i].text])
                /\ completion_q' = completion_q \o sends
                /\ out_log' = out_log \o [i \in 1..Len(sends) |-> Logged(sends[i])]
                /\ w_pc' = IF loop_breaks(has_eog, has_stop) THEN "done" ELSE "gen"
                /\ UNCHANGED <<message_q, respond_to, gil, fatal>>
    /\ UNCHANGED <<cfgVars, auxVars, peerVars, embedVars, said, chatVars, h_pc, n_say, n_reset, finished,
                   last_cmd, gen_start, shifted>>

\* mutant of SendDone: Done is sent from inside the loop, which goes on
SendDone_InsideLoop ==
    /\ w_pc = "done"
    /\ IF HandleGone
       THEN WorkerEnds("SendError") /\ UNCHANGED <<completion_q, out_log, finished>>
       ELSE /\ completion_q' = Append(completion_q, Done(full_response, respond_to))
            /\ out_log' = Append(out_log, Logged(Done(full_response, respond_to)))
            /\ finished' = finished \cup {respond_to}
            /\ w_pc' = "gen"
            /\ UNCHANGED <<message_q, n_past, kv, n_gen, fatal, gil, respond_to, full_response>>
    /\ UNCHANGED <<cfgVars, auxVars, peerVars, embedVars, said, chatVars, h_pc, n_say, n_reset, last_cmd, gen_start, shifted>>

\* after the loop: send Done and return Ok(state)
SendDone ==
    /\ w_pc = "done"
    /\ IF HandleGone
       THEN WorkerEnds("SendError") /\ UNCHANGED <<completion_q, out_log, finished>>
       ELSE /\ completion_q' = Append(completion_q, Done(full_response, respond_to))
            /\ out_log' = Append(out_log, Logged(Done(full_response, respond_to)))
            /\ finished' = finished \cup {respond_to}
            /\ w_pc' = "idle"
            /\ gil' = "free"
            /\ respond_to' = 0
            /\ full_response' = <<>>
            /\ UNCHANGED <<message_q, n_past, kv, n_gen, fatal>>
    /\ UNCHANGED <<cfgVars, auxVars, peerVars, embedVars, said, chatVars, h_pc, n_say, n_reset, last_cmd, gen_start, shifted>>

\* message_rx.recv() fails: the queue is empty and every sender is dropped
WorkerExit ==
    /\ w_pc = "idle"
    /\ message_q = <<>>
    /\ HandleGone
    /\ w_pc' = "exited"
    /\ UNCHANGED <<cfgVars, auxVars, peerVars, embedVars, said, chatVars, h_pc, n_say, n_reset, message_q,
                   completion_q, n_past, kv, full_response, respond_to, n_gen, gil,
                   histVars>>

(* --------------------- a second session on the model ------------------- *)
\* A second LLMActorHandle created with the same params: its worker runs the
\* same handle_msg under the same lock.  Its context is its own and is left
\* out; its prompt fits, and its Handle only says and is never dropped.
PeerId == MaxCalls + 1
PeerText == <<"b">>
PeerToks == {TokenOf("b"), EogTok}

\* mutant of channel_of: every worker sends on the first session's channel
channel_of_Shared(id) == "chat"

\* the Sender a WriteUntilDone carries is a clone of the completion_tx of the
\* Handle that sent it: the event channel the events of turn id go to
channel_of(id) == IF id = PeerId THEN "peer" ELSE "chat"

\* respond_to.send(ev) for each ev of evs, by the second session's worker
PeerSend(evs) ==
    IF channel_of(PeerId) = "peer"
    THEN p_completion_q' = p_completion_q \o evs /\ UNCHANGED completion_q
    ELSE completion_q' = completion_q \o evs /\ UNCHANGED p_completion_q

\* LLMActorHandle::say on the second Handle
PeerSay ==
    /\ ~p_said
    /\ p_pc # "dead"
    /\ p_said' = TRUE
    /\ LET rd == render_diff(chat_template, add_message(<<>>, "user", PeerText), 0)
       IN  p_message_q' = IF rd.err = "none" THEN say_commands(rd.diff, PeerId) ELSE <<>>
    /\ UNCHANGED <<cfgVars, auxVars, chatVars, said, embedVars, h_pc, n_say, n_reset, message_q,
                   completion_q, workerVars, p_completion_q, p_pc, p_response, p_n_gen>>

\* handle_msg of the second worker, WorkerMsg::ReadString: lock, tokenize,
\* commit, return (which drops the guard)
PeerReadString ==
    /\ p_pc = "idle"
    /\ p_message_q # <<>>
    /\ Head(p_message_q).type = "ReadString"
    /\ CanLock(gil) \/ gil = "poisoned"
    /\ LET tokens == str_to_token(Head(p_message_q).text)
       IN  IF \/ gil = "poisoned"
              \/ ~CanTokenize(Head(p_message_q).text)
              \/ Len(tokens) > n_ctx
           THEN p_pc' = "dead" /\ p_message_q' = <<>>
           ELSE p_pc' = "idle" /\ p_message_q' = Tail(p_message_q)
    /\ UNCHANGED <<cfgVars, auxVars, chatVars, said, embedVars, h_pc, n_say, n_reset, message_q,
                   completion_q, workerVars, p_said, p_completion_q, p_response, p_n_gen>>

\* handle_msg of the second worker, WorkerMsg::WriteUntilDone: take the lock
PeerStart ==
    /\ p_pc = "idle"
    /\ p_message_q # <<>>
    /\ Head(p_message_q).type = "WriteUntilDone"
    /\ CanLock(gil) \/ gil = "poisoned"
    /\ IF gil = "poisoned"
       THEN p_pc' = "dead" /\ p_message_q' = <<>> /\ UNCHANGED gil
       ELSE p_pc' = "gen" /\ p_message_q' = Tail(p_message_q) /\ gil' = "peer"
    /\ p_response' = <<>>
    /\ UNCHANGED <<cfgVars, auxVars, chatVars, said, embedVars, h_pc, n_say, n_reset, message_q,
                   completion_q, w_pc, n_past, kv, full_response, respond_to, n_gen,
                   histVars, p_said, p_completion_q, p_n_gen>>

\* one iteration of the second worker's generation loop
PeerSample(new_token) ==
    /\ p_pc = "gen"
    /\ p_n_gen >= MaxGen => new_token = EogTok
    /\ LET has_stop == has_stop_tokens(stop_tokens, p_response)
           has_eog == is_eog_token(new_token)
           sends == emitted(has_eog, token_to_str(new_token), PeerId)
       IN  /\ PeerSend(sends)
           /\ p_response' = p_response \o Concat([i \in 1..Len(sends) |-> sends[i].text])
           /\ p_pc' = IF loop_breaks(has_eog, has_stop) THEN "done" ELSE "gen"
    /\ p_n_gen' = p_n_gen + 1
    /\ gil' = HeldUntilReturn(gil)
    /\ UNCHANGED <<cfgVars, auxVars, chatVars, said, embedVars, h_pc, n_say, n_reset, message_q,
                   w_pc, n_past, kv, full_response, respond_to, n_gen,
                   histVars, p_said, p_message_q>>

\* the second worker sends Done and returns Ok(state), which drops the guard
PeerSendDone ==
    /\ p_pc = "done"
    /\ PeerSend(<<Done(p_response, PeerId)>>)
    /\ p_pc' = "idle"
    /\ p_response' = <<>>
    /\ gil' = "free"
    /\ UNCHANGED <<cfgVars, auxVars, chatVars, said, embedVars, h_pc, n_say, n_reset, message_q,
                   w_pc, n_past, kv, full_response, respond_to, n_gen,
                   histVars, p_said, p_message_q, p_n_gen>>

(* --------------------------- embedding worker -------------------------- *)
\* texts that fit the embedding context, one of them with an interior NUL
EmbedTexts == {<<"a">>, <<NUL>>}
\* any texts: the last is longer than the embedding context
AnyEmbedTexts == EmbedTexts \cup {<<"b">>, <<"a", "b", "a", "b">>}
\* str_to_token(text, AddBos::Always) puts the model's BOS token first
BosTok == Len(Vocab) + 2

Embedding(batch) == [type |-> "Embedding", batch |-> batch]
FatalError(kind) == [type |-> "FatalError", batch |-> <<>>, kind |-> kind]

\* the consumer sends a text on text_tx; the send fails once text_rx is dropped
SendTextUpTo(limit, text) ==
    /\ n_text < limit
    /\ e_pc \notin {"dead", "panicked"}
    /\ n_text' = n_text + 1
    /\ text_q' = Append(text_q, text)
    /\ UNCHANGED <<cfgVars, auxVars, chatVars, said, peerVars, h_pc, n_say, n_reset, message_q,
                   completion_q, workerVars, embedding_q, e_pc, e_kv, e_log>>

SendText(text) == SendTextUpTo(MaxTexts, text)

\* run_embedding_worker_result: text_rx.recv() returns a text, take the lock;
\* Err(GILPoisonError) is sent as FatalError by run_embedding_worker
EmbedLock ==
    /\ e_pc = "idle"
    /\ text_q # <<>>
    /\ CanLock(gil) \/ gil = "poisoned"
    /\ e_log' = Append(e_log, Head(text_q))
    /\ IF gil = "poisoned"
       THEN /\ e_pc' = "dead"
            /\ text_q' = <<>>
            /\ embedding_q' = Append(embedding_q, FatalError("GILPoisonError"))
            /\ UNCHANGED gil
       ELSE /\ e_pc' = "locked"
            /\ gil' = "embed"
            /\ text_q' = Tail(text_q)
            /\ UNCHANGED embedding_q
    /\ UNCHANGED <<cfgVars, auxVars, chatVars, said, peerVars, h_pc, n_say, n_reset, message_q,
                   completion_q, w_pc, n_past, kv, full_response, respond_to, n_gen,
                   histVars, n_text, e_kv>>

\* the worker returns Err(kind): the guard is dropped, text_rx is dropped with
\* the queued texts, and run_embedding_worker sends the FatalError
EmbedFails(kind) ==
    /\ e_pc' = "dead"
    /\ gil' = "free"
    /\ text_q' = <<>>
    /\ e_kv' = <<>>
    /\ embedding_q' = Append(embedding_q, FatalError(kind))

\* an expect or unwrap fails: the thread unwinds with the guard held, which
\* poisons the lock, and embedding_tx is dropped with nothing sent
EmbedPanics ==
    /\ e_pc' = "panicked"
    /\ gil' = "poisoned"
    /\ text_q' = <<>>
    /\ e_kv' = <<>>
    /\ UNCHANGED embedding_q

\* mutant of clear_kv_cache: the cells of the earlier text stay
clear_kv_cache_KeepsCells(cache) == cache

\* ctx.clear_kv_cache()
clear_kv_cache(cache) == <<>>

\* the rest of the loop body: tokenize, add_sequence from position 0,
\* clear_kv_cache, decode, take the pooled embedding, send it, drop the guard
EmbedRun ==
    /\ e_pc = "locked"
    /\ LET text == e_log[Len(e_log)]
           tokens == <<BosTok>> \o str_to_token(text)
           batch == add_sequence(tokens, 0)
           cleared == clear_kv_cache(e_kv)
       IN  IF ~CanTokenize(text) THEN EmbedFails("TokenizerError")
           ELSE IF Len(tokens) > MaxEmbedCtx THEN EmbedPanics
           ELSE IF ~DecodeFits(cleared, batch, MaxEmbedCtx) THEN EmbedFails("DecodeError")
           ELSE IF ~pooling THEN EmbedPanics
           ELSE /\ e_pc' = "idle"
                /\ gil' = "free"
                /\ e_kv' = decode(cleared, batch)
                /\ embedding_q' = Append(embedding_q, Embedding(decode(cleared, batch)))
                /\ UNCHANGED text_q
    /\ UNCHANGED <<cfgVars, auxVars, chatVars, said, peerVars, h_pc, n_say, n_reset, message_q,
                   completion_q, w_pc, n_past, kv, full_response, respond_to, n_gen,
                   histVars, n_text, e_log>>

(* ---------------------------- specification ---------------------------- *)
Next ==
    \/ \E text \in SayTexts : Say(text)
    \/ Recv
    \/ GetResponseBlocking
    \/ TryRecv
    \/ DropHandle
    \/ SendResetContext
    \/ HandleReadString
    \/ HandleResetContext
    \/ StartWriteUntilDone
    \/ ContextShift
    \/ \E new_token \in SampleToks : SampleAndEmit(new_token)
    \/ SendDone
    \/ WorkerExit

Spec == Init /\ [][Next]_vars

\* Three sessions on one model in one process: the chat session above, making
\* one say that fits its context, a second chat session and an embedding worker.
SharedInit ==
    /\ Init
    /\ n_ctx = MaxCtx
    /\ chat_template = "plain"
    /\ messages = <<>>

FirstSay == n_say = 0 /\ Say(<<"a">>)

ChatWorkerNext ==
    \/ HandleReadString
    \/ StartWriteUntilDone
    \/ ContextShift
    \/ \E new_token \in SampleToks : SampleAndEmit(new_token)
    \/ SendDone

PeerWorkerNext ==
    \/ PeerReadString
    \/ PeerStart
    \/ \E new_token \in PeerToks : PeerSample(new_token)
    \/ PeerSendDone

EmbedWorkerNext == EmbedLock \/ EmbedRun

SharedNext ==
    \/ FirstSay
    \/ GetResponseBlocking
    \/ PeerSay
    \/ \E text \in EmbedTexts : SendText(text)
    \/ ChatWorkerNext
    \/ PeerWorkerNext
    \/ EmbedWorkerNext

SharedSpec == SharedInit /\ [][SharedNext]_vars

\* every worker is a thread of its own that the scheduler keeps running
FairSharedSpec ==
    /\ SharedSpec
    /\ WF_vars(ChatWorkerNext)
    /\ WF_vars(PeerWorkerNext)
    /\ WF_vars(EmbedWorkerNext)

\* A ChatState used on its own: any sequence of add_message and render_diff
\* calls on a fresh ChatState::new(chat_template).
Roles == {"system", "user", "assistant"}
Contents == {<<"a">>, <<"b">>}

sessionVars == <<h_pc, n_say, n_reset, message_q, completion_q, workerVars,
                 peerVars, embedVars, said>>

CsAddMessage(role, content) ==
    /\ cs_last.err # "panic"
    /\ Len(messages) < MaxMsgs
    /\ messages' = add_message(messages, role, content)
    /\ cs_last' = [op |-> "add_message", err |-> "none", diff |-> <<>>, text |-> <<>>,
                   renders |-> 0, messages |-> messages, length |-> length,
                   prev_op |-> cs_last.op, prev_err |-> cs_last.err]
    /\ UNCHANGED <<cfgVars, sessionVars, length, diffs, sampler_config, sampler, engine, pooling, cos_last, chat_loop, node, nw_sampler>>

CsRenderDiff ==
    /\ cs_last.err # "panic"
    /\ LET rd == render_diff(chat_template, messages, length)
       IN  /\ messages' = rd.messages
           /\ length' = rd.length
           /\ diffs' = diffs \o rd.diff
           /\ cs_last' = [op |-> "render_diff", err |-> rd.err, diff |-> rd.diff,
                          text |-> rd.text, renders |-> rd.renders,
                          messages |-> messages, length |-> length,
                          prev_op |-> cs_last.op, prev_err |-> cs_last.err]
    /\ UNCHANGED <<cfgVars, sessionVars, sampler_config, sampler, engine, pooling, cos_last, chat_loop, node, nw_sampler>>

ChatInit ==
    /\ Init
    /\ n_ctx = MaxCtx
    /\ messages = <<>>

ChatNext ==
    \/ \E role \in Roles, content \in Contents : CsAddMessage(role, content)
    \/ CsRenderDiff

ChatSpec == ChatInit /\ [][ChatNext]_vars

\* The sampler of a worker: the caller fills LLMActorParams.sampler_config and
\* the worker builds its sampler from it once.
SetSamplerConfig(conf) ==
    /\ sampler = <<>>
    /\ sampler_config' = conf
    /\ UNCHANGED <<cfgVars, chatVars, sessionVars, cs_last, sampler, engine, pooling, cos_last, chat_loop, node, nw_sampler>>

MakeSampler ==
    /\ sampler = <<>>
    /\ sampler' = make_sampler(sampler_config)
    /\ UNCHANGED <<cfgVars, chatVars, sessionVars, cs_last, sampler_config, engine, pooling, cos_last, chat_loop, node, nw_sampler>>

SamplerNext ==
    \/ \E conf \in SamplerConfigs : SetSamplerConfig(conf)
    \/ MakeSampler

SamplerInit == ChatInit /\ chat_template = "plain"

SamplerSpec == SamplerInit /\ [][SamplerNext]_vars

\* Two sessions on one model whose samplers are greedy: the chat session makes
\* one say and waits for its response while the second session runs.
GreedyConfigs == {SamplerConfig(Greedy, -1, 0, 0, 0), SamplerConfig(Greedy, 64, 1100, 100, 200)}

GreedyInit ==
    /\ SessionInit
    /\ n_ctx >= MaxCtx - 1
    /\ chat_template = "plain"
    /\ messages = <<>>
    /\ cs_last = NoCall
    /\ sampler_config \in GreedyConfigs
    /\ sampler = make_sampler(sampler_config)
    /\ engine \in Engines
    /\ pooling = TRUE
    /\ cos_last = NoCosine
    /\ chat_loop = LoopStart
    /\ HostInit

GreedySample == \E new_token \in sample(sampler, engine, kv, n_gen) : SampleAndEmit(new_token)

GreedyWorkerNext ==
    \/ HandleReadString
    \/ StartWriteUntilDone
    \/ ContextShift
    \/ GreedySample
    \/ SendDone

GreedyNext ==
    \/ FirstSay
    \/ GetResponseBlocking
    \/ PeerSay
    \/ GreedyWorkerNext
    \/ PeerWorkerNext

GreedySpec == GreedyInit /\ [][GreedyNext]_vars

\* The embedding worker with its consumer. The chat worker of the process can
\* panic in its ReadString arm with the lock held, which poisons the lock.
EmbedInit ==
    /\ SessionInit
    /\ n_ctx \in {1, MaxCtx}
    /\ chat_template = "plain"
    /\ messages = <<>>
    /\ cs_last = NoCall
    /\ sampler_config = DefaultSamplerConfig
    /\ sampler = <<>>
    /\ engine = DefaultEngine
    /\ pooling \in BOOLEAN
    /\ cos_last = NoCosine
    /\ chat_loop = LoopStart
    /\ HostInit

EmbedNext ==
    \/ FirstSay
    \/ HandleReadString
    \/ HandleLockPoisoned
    \/ \E text \in AnyEmbedTexts : SendTextUpTo(MaxEmbedTexts, text)
    \/ EmbedLock
    \/ EmbedRun

EmbedSpec == EmbedInit /\ [][EmbedNext]_vars

\* cosine_similarity called on any two vectors, any number of times
CosineCall(a, b) ==
    /\ cos_last' = [a |-> a, b |-> b, ret |-> cosine_similarity(a, b)]
    /\ UNCHANGED <<cfgVars, chatVars, sessionVars, cs_last, sampler_config, sampler, engine,
                   pooling, chat_loop, node, nw_sampler>>

CosineNext == \E a \in Vectors, b \in Vectors : CosineCall(a, b)

CosineInit == ChatInit /\ chat_template = "plain"

CosineSpec == CosineInit /\ [][CosineNext]_vars

\* simple_chat_loop with the consumer of its say channel and the response
\* streams of its actor.
otherVars == <<cfgVars, sessionVars, cs_last, sampler_config, sampler, engine, pooling, cos_last,
               node, nw_sampler>>

\* the items of a response stream
ErrItem(id) == [type |-> "Err", text |-> <<>>, id |-> id]
StreamTokens(items) == SelectSeq(items, LAMBDA it : it.type = "Token")
StreamText(items) == Concat([i \in 1..Len(StreamTokens(items)) |-> StreamTokens(items)[i].text])

\* actor.generate_response(diff): what the stream can yield next. The worker
\* streams Token events and then one terminal Done, with the whole response,
\* or one terminal error.
StreamMayYield(items, id) ==
    IF items # <<>> /\ items[Len(items)].type \in {"Done", "Err"} THEN {}
    ELSE {Done(StreamText(items), id), ErrItem(id)}
             \cup (IF Len(items) < MaxStream
                   THEN {Token(<<c>>, id) : c \in {"a", "b"}} ELSE {})

\* a call of the ChatOutput
Call(name, arg, id) == [call |-> name, arg |-> arg, turn |-> id]

\* mutant of fold_step: a Token is dropped without a call
fold_step_DropsToken(acc, item) ==
    CASE item.type = "Token" -> [acc |-> None, calls |-> <<>>]
      [] item.type = "Err" -> [acc |-> SomeErr, calls |-> <<Call("emit_error", <<>>, item.id)>>]
      [] OTHER -> [acc |-> SomeOk(item.text), calls |-> <<>>]

\* mutant of fold_step: an error of the stream is dropped without a call
fold_step_SwallowsError(acc, item) ==
    CASE item.type = "Token" ->
             [acc |-> None, calls |-> <<Call("emit_token", item.text, item.id)>>]
      [] item.type = "Err" -> [acc |-> None, calls |-> <<>>]
      [] OTHER -> [acc |-> SomeOk(item.text), calls |-> <<>>]

\* the closure of the fold: the new accumulator and the output calls it makes
fold_step(acc, item) ==
    CASE item.type = "Token" ->
             [acc |-> None, calls |-> <<Call("emit_token", item.text, item.id)>>]
      [] item.type = "Err" -> [acc |-> SomeErr, calls |-> <<Call("emit_error", <<>>, item.id)>>]
      [] OTHER -> [acc |-> SomeOk(item.text), calls |-> <<>>]

\* the consumer sends a message on say_tx
LoopSend(text) ==
    /\ chat_loop.say_open
    /\ chat_loop.n_sent < MaxLoopSays
    /\ chat_loop.pc # "returned"
    /\ chat_loop' = [chat_loop EXCEPT !.say_q = Append(@, text), !.n_sent = @ + 1]
    /\ UNCHANGED <<otherVars, chatVars>>

\* the consumer drops say_tx
LoopDropSender ==
    /\ chat_loop.say_open
    /\ chat_loop' = [chat_loop EXCEPT !.say_open = FALSE]
    /\ UNCHANGED <<otherVars, chatVars>>

\* say_rx.recv() returns: a message starts a turn (add_message, render_diff,
\* generate_response), None ends the loop with Ok(())
LoopRecv ==
    /\ chat_loop.pc = "recv"
    /\ IF chat_loop.say_q # <<>>
       THEN LET rd == render_diff(chat_template,
                                  add_message(messages, "user", Head(chat_loop.say_q)), length)
            IN  /\ messages' = rd.messages
                /\ length' = rd.length
                /\ diffs' = diffs \o rd.diff
                /\ chat_loop' = [chat_loop EXCEPT
                                    !.say_q = Tail(@), !.turn = @ + 1,
                                    !.acc = None, !.items = <<>>,
                                    !.pc = IF rd.err = "none" THEN "stream" ELSE "returned",
                                    !.ret = IF rd.err = "none" THEN "none" ELSE "panic"]
       ELSE /\ ~chat_loop.say_open
            /\ chat_loop' = [chat_loop EXCEPT !.pc = "returned", !.ret = "Ok"]
            /\ UNCHANGED chatVars
    /\ UNCHANGED otherVars

\* the stream yields an item and the fold takes it
LoopStreamItem(item) ==
    /\ chat_loop.pc = "stream"
    /\ item \in StreamMayYield(chat_loop.items, chat_loop.turn)
    /\ chat_loop' = [chat_loop EXCEPT
                        !.items = Append(@, item),
                        !.acc = fold_step(chat_loop.acc, item).acc,
                        !.out = @ \o fold_step(chat_loop.acc, item).calls]
    /\ UNCHANGED <<otherVars, chatVars>>

\* the stream ends: ok_or(NoResponseError)??, then emit_response, add_message
\* and render_diff
LoopStreamEnd ==
    /\ chat_loop.pc = "stream"
    /\ IF ~chat_loop.acc.some
       THEN /\ chat_loop' = [chat_loop EXCEPT !.pc = "returned", !.ret = "NoResponseError"]
            /\ UNCHANGED chatVars
       ELSE IF ~chat_loop.acc.ok
       THEN /\ chat_loop' = [chat_loop EXCEPT !.pc = "returned", !.ret = "GenerateResponseError"]
            /\ UNCHANGED chatVars
       ELSE LET rd == render_diff(chat_template,
                                  add_message(messages, "assistant", chat_loop.acc.text),
                                  length)
            IN  /\ messages' = rd.messages
                /\ length' = rd.length
                /\ diffs' = diffs \o rd.diff
                /\ chat_loop' = [chat_loop EXCEPT
                                    !.pc = "recv",
                                    !.out = Append(@, Call("emit_response", chat_loop.acc.text,
                                                           chat_loop.turn))]
    /\ UNCHANGED otherVars

\* ChatState::from_model(&params.model) and add_message("system", system_prompt)
LoopInit ==
    /\ Init
    /\ n_ctx = MaxCtx
    /\ messages = <<Message("system", SystemPrompt)>>

LoopNext ==
    \/ \E text \in SayTexts : LoopSend(text)
    \/ LoopDropSender
    \/ LoopRecv
    \/ \E item \in StreamMayYield(chat_loop.items, chat_loop.turn) : LoopStreamItem(item)
    \/ LoopStreamEnd

LoopSpec == LoopInit /\ [][LoopNext]_vars

\* A Godot node with its worker thread and the engine that calls it.
coreVars == <<cfgVars, chatVars, sessionVars, cs_last, sampler_config, sampler, engine, pooling,
              cos_last, chat_loop>>

NodeTexts == {<<"a">>}

\* the script calls say (chat), embed (embedding) or prompt (completion)
NodeSay(content) ==
    /\ node.pc = "idle"
    /\ Len(node.inbox) < MaxNodeSays
    /\ node' = send_message([node EXCEPT !.op = "say", !.arg = content, !.cold = ~node.tx,
                                         !.ret = "none", !.starts = 0, !.errors = 0],
                            nw_sampler, content, 1)
    /\ UNCHANGED <<coreVars, nw_sampler>>

\* the script calls start_worker (chat, embedding) or run (completion)
NodeStartWorker ==
    /\ node.pc = "idle"
    /\ node' = [start_worker([node EXCEPT !.op = "start_worker", !.arg = <<>>,
                                          !.cold = ~node.tx, !.starts = 0, !.errors = 0],
                             nw_sampler)
                EXCEPT !.ret = "returned"]
    /\ UNCHANGED <<coreVars, nw_sampler>>

\* the events a worker sends: a node's worker answers the messages it was sent
NodeEvents(kind) ==
    IF kind = "chat" THEN {"Token", "Done", "FatalErr"}
    ELSE IF kind = "embedding" THEN {"Embedding", "FatalError"}
    ELSE {"Token", "Done"}

\* the worker thread sends an event; a fatal error is its last
NodeWorkerSends(ev) ==
    /\ node.worker = "running"
    /\ node.n_out < MaxNodeEvents
    /\ ev \in NodeEvents(node.kind)
    /\ ev \in {"Token", "Done", "Embedding"} => node.inbox # <<>>
    /\ node' = [node EXCEPT !.chan = Append(@, ev), !.n_out = @ + 1,
                            !.worker = IF ev \in {"FatalErr", "FatalError"}
                                       THEN "ended" ELSE @]
    /\ UNCHANGED <<coreVars, nw_sampler>>

\* the worker thread ends and drops its ends of the channels
NodeWorkerEnds ==
    /\ node.worker = "running"
    /\ node' = [node EXCEPT !.worker = "ended"]
    /\ UNCHANGED <<coreVars, nw_sampler>>

\* the engine calls physics_process for a frame
PhysicsBegin ==
    /\ node.pc = "idle"
    /\ node' = [node EXCEPT !.pc = "physics", !.op = "physics_process", !.arg = <<>>,
                            !.ret = "none", !.errors = 0, !.passes = 0, !.forwarded = 0]
    /\ UNCHANGED <<coreVars, nw_sampler>>

PhysicsPass ==
    /\ node.pc = "physics"
    /\ node' = physics_pass(node)
    /\ UNCHANGED <<coreVars, nw_sampler>>

NodeInit ==
    /\ SessionInit
    /\ n_ctx = MaxCtx
    /\ chat_template = "plain"
    /\ messages = <<>>
    /\ cs_last = NoCall
    /\ sampler_config = DefaultSamplerConfig
    /\ sampler = <<>>
    /\ engine = DefaultEngine
    /\ pooling = TRUE
    /\ cos_last = NoCosine
    /\ chat_loop = LoopStart
    /\ nw_sampler = NewSampler
    /\ node \in {NewNode(kind, model_node, loads, FALSE) :
                    kind \in NodeKinds, model_node \in BOOLEAN, loads \in BOOLEAN}

NodeNext ==
    \/ \E content \in NodeTexts : NodeSay(content)
    \/ NodeStartWorker
    \/ \E ev \in NodeEvents(node.kind) : NodeWorkerSends(ev)
    \/ NodeWorkerEnds
    \/ PhysicsBegin
    \/ PhysicsPass

NodeSpec == NodeInit /\ [][NodeNext]_vars

\* A NobodyWhoSampler resource edited in the inspector, and the chat node it
\* is attached to.
PropertyValues ==
    {<<"method", Variant("String", m)>> : m \in SamplerMethodNames \cup {"TopK"}}
    \cup {<<"penalty_last_n", Variant("int", 64)>>, <<"penalty_repeat", Variant("float", 1100)>>,
          <<"seed", Variant("int", 7)>>, <<"seed", Variant("float", 500)>>,
          <<"temperature", Variant("float", 1200)>>, <<"tau", Variant("float", 4000)>>,
          <<"top_k", Variant("int", 10)>>}

SetProperty(property, value) ==
    /\ nw_sampler' = set_property(nw_sampler, property, value)
    /\ UNCHANGED <<coreVars, node>>

ResourceInit ==
    /\ SessionInit
    /\ n_ctx = MaxCtx
    /\ chat_template = "plain"
    /\ messages = <<>>
    /\ cs_last = NoCall
    /\ sampler_config = DefaultSamplerConfig
    /\ sampler = <<>>
    /\ engine = DefaultEngine
    /\ pooling = TRUE
    /\ cos_last = NoCosine
    /\ chat_loop = LoopStart
    /\ nw_sampler = NewSampler
    /\ node \in {NewNode("chat", TRUE, TRUE, has_sampler) : has_sampler \in BOOLEAN}

ResourceNext ==
    \/ \E pv \in PropertyValues : SetProperty(pv[1], pv[2])
    \/ NodeStartWorker

ResourceSpec == ResourceInit /\ [][ResourceNext]_vars

(* ------------------------------- claims -------------------------------- *)
\* the places in out_log of the events sent for turn id
EventsOf(id) == {i \in 1..Len(out_log) : out_log[i].id = id}
DonesOf(id) == {i \in EventsOf(id) : out_log[i].type = "Done"}
TerminalsOf(id) == {i \in EventsOf(id) : out_log[i].type \in {"Done", "FatalErr"}}

\* C1: for every WriteUntilDone the worker finished with Ok, the events sent
\* for it are Token events followed by exactly one Done, which is the last
\* event of that turn; no turn ever has a second Done or a Token after its Done.
C1_TokensThenOneDone ==
    \A id \in 1..n_say :
        /\ \A i \in EventsOf(id) : out_log[i].type \in {"Token", "Done"}
        /\ Cardinality(DonesOf(id)) <= 1
        /\ \A d \in DonesOf(id) : \A i \in EventsOf(id) : i <= d
        /\ id \in finished => Cardinality(DonesOf(id)) = 1
        /\ DonesOf(id) # {} => id \in finished

\* two turns have finished, each with a Token before its Done
C1_Witness ==
    /\ finished = {1, 2}
    /\ \A id \in {1, 2} : \E i \in EventsOf(id) : out_log[i].type = "Token"

\* C2: when a tokenize, batch-add or decode failure ends the worker while it
\* serves a turn whose Handle still exists, a FatalErr event was sent (the
\* turn's one terminal event).
C2_FatalErrDelivered ==
    (fatal.kind \in {"TokenizerError", "BatchAddError", "DecodeError"} /\ ~HandleGone)
        => Cardinality(TerminalsOf(fatal.id)) = 1

\* the Handle is blocked in completion_rx.recv() on an empty channel whose
\* only remaining sender is the Handle's own completion_tx
RecvBlockedForever ==
    /\ h_pc \in {"recv", "grb"}
    /\ completion_q = <<>>
    /\ WorkerGone

\* C3: the worker never terminates leaving the Handle's recv or
\* get_response_blocking waiting on a channel nothing will ever be sent on.
C3_RecvReturnsAfterWorkerEnds == ~RecvBlockedForever

\* a step of the running WriteUntilDone sends a Token event
SendsToken ==
    /\ Len(out_log') = Len(out_log) + 1
    /\ out_log'[Len(out_log')].type = "Token"

\* C4: once the accumulated response of a running WriteUntilDone contains a
\* stop substring, no step of it sends a Token event or appends to the response.
C4_NothingAfterStopMatch ==
    [][(respond_to # 0 /\ has_stop_tokens(stop_tokens, full_response))
         => (~SendsToken /\ (respond_to' = respond_to => full_response' = full_response))]_vars

\* the loop iteration that has just committed the end-of-generation token
\* (it is the last cell of the cache, and the loop has been left)
CommitsEog ==
    /\ w_pc \in {"gen", "sample"}
    /\ respond_to # 0
    /\ w_pc' = "done"
    /\ kv' # <<>>
    /\ kv'[Len(kv')].tok = EogTok

\* C5: the iteration that samples the end-of-generation token commits it at
\* position n_past and counts it, but neither appends its text to the
\* response nor sends a Token event.
C5_EogCommittedNotEmitted ==
    [][CommitsEog =>
         /\ kv' = Append(kv, [pos |-> n_past, tok |-> EogTok])
         /\ n_past' = n_past + 1
         /\ full_response' = full_response
         /\ out_log' = out_log
         /\ completion_q' = completion_q]_vars

\* a generation that produced text has ended on the end-of-generation token
C5_Witness ==
    /\ w_pc = "done"
    /\ full_response # <<>>
    /\ kv # <<>>
    /\ kv[Len(kv)] = [pos |-> n_past - 1, tok |-> EogTok]

\* the running WriteUntilDone began with the position counter below the capacity
GenFromBelow == gen_start >= 0 /\ gen_start < n_ctx

\* what C6 says of a generation that began below the capacity: once it has
\* shifted, the committed count and the counter stay below the capacity and no
\* cell lies at a position >= capacity; and it does not end in an error
\* (a failed send to a dropped Handle apart)
StaysBelowCapacity ==
    /\ (respond_to # 0 /\ GenFromBelow /\ shifted) =>
           /\ get_kv_cache_token_count(kv) < n_ctx
           /\ n_past < n_ctx
           /\ \A i \in 1..Len(kv) : kv[i].pos < n_ctx
    /\ (fatal.kind # "none" /\ last_cmd = "WriteUntilDone" /\ GenFromBelow) =>
           (fatal.kind = "SendError" /\ HandleGone)

IsWindow(cache, n) ==
    /\ Len(cache) = n
    /\ {cache[i].pos : i \in 1..Len(cache)} = 0..(n - 1)

\* the tokens of a window in position order
ContextTokens(cache, n) ==
    [i \in 1..n |-> cache[CHOOSE j \in 1..Len(cache) : cache[j].pos = i - 1].tok]

\* the step in which the context shift fires
ShiftFires == w_pc = "gen" /\ w_pc' = "sample"

\* C7: a context shift at position counter p leaves the counter at
\* p - floor(p/2) and the context holding the newest p - floor(p/2) tokens, in
\* their order, at the positions 0 .. p - floor(p/2) - 1.
C7_ShiftDropsOldestHalf ==
    [][ShiftFires =>
         LET p == n_past
             d == p \div 2
         IN  /\ IsWindow(kv, p)
             /\ n_past' = p - d
             /\ IsWindow(kv', p - d)
             /\ ContextTokens(kv', p - d) = SubSeq(ContextTokens(kv, p), d + 1, p)]_vars

\* a shift has just discarded tokens and left at least two
C7_Witness ==
    /\ w_pc = "sample"
    /\ shifted
    /\ n_past >= 2
    /\ n_past < n_ctx - 1

\* C8: whenever the worker waits for a command, n_past is the number of
\* tokens in the context's cache.
C8_CounterMatchesCache ==
    w_pc = "idle" => n_past = get_kv_cache_token_count(kv)

\* the worker waits again after a ReadString and a WriteUntilDone that shifted
C8_Witness ==
    /\ w_pc = "idle"
    /\ finished # {}
    /\ shifted
    /\ n_past > 0

\* the worker takes a ReadString and returns Ok
ReadOk ==
    /\ w_pc = "idle"
    /\ w_pc' = "idle"
    /\ message_q # <<>>
    /\ Head(message_q).type = "ReadString"
    /\ message_q' = Tail(message_q)

\* the worker takes a ReadString and returns Err
ReadFails ==
    /\ w_pc = "idle"
    /\ w_pc' \in {"dead", "panicked"}
    /\ message_q # <<>>
    /\ Head(message_q).type = "ReadString"

\* C9: a ReadString that returns Ok appends the k tokens of its text to the
\* context at positions n_past .. n_past + k - 1, in order, and adds k to
\* n_past; no ReadString, failing or not, sends an event.
C9_ReadCommitsAtCounter ==
    [][/\ ReadOk =>
            LET tokens == str_to_token(Head(message_q).text)
                k == Len(tokens)
            IN  /\ k >= 1
                /\ n_past' = n_past + k
                /\ Len(kv') = Len(kv) + k
                /\ SubSeq(kv', 1, Len(kv)) = kv
                /\ \A i \in 1..k :
                       kv'[Len(kv) + i] = [pos |-> n_past + i - 1, tok |-> tokens[i]]
       /\ (ReadOk \/ ReadFails) =>
            (out_log' = out_log /\ completion_q' = completion_q)]_vars

\* the second turn's text has been read behind the first turn's tokens
C9_Witness ==
    /\ w_pc = "idle"
    /\ last_cmd = "ReadString"
    /\ finished = {1}
    /\ n_past >= 3
    /\ IsWindow(kv, n_past)

\* the worker takes a ResetContext
ResetHandled ==
    /\ w_pc = "idle"
    /\ message_q # <<>>
    /\ Head(message_q).type = "ResetContext"
    /\ message_q' = Tail(message_q)

\* C10: ResetContext leaves the cache empty and n_past at 0, whatever they
\* were, and the ReadString that follows it commits its tokens from position 0.
C10_ResetClears ==
    [][/\ ResetHandled => (kv' = <<>> /\ n_past' = 0)
       /\ (ReadOk /\ last_cmd = "ResetContext") =>
            IsWindow(kv', Len(str_to_token(Head(message_q).text)))]_vars

\* a context that held a prompt and generated tokens has been reset
C10_Witness ==
    /\ w_pc = "idle"
    /\ last_cmd = "ResetContext"
    /\ finished # {}
    /\ n_gen > 0
    /\ kv = <<>>
    /\ n_past = 0

\* the result of the render_diff a say(text) call makes in this state
SayRender(text) == render_diff(chat_template, add_message(messages, "user", text), length)

\* this step is a say(text) call that returns Ok: the render succeeded and the
\* worker's receiver lives
SayOk(text) ==
    /\ n_say' = n_say + 1
    /\ ~WorkerGone
    /\ SayRender(text).err = "none"
    /\ messages' = SayRender(text).messages

\* C11: a say that returns Ok appends exactly ReadString(diff) and then
\* WriteUntilDone to the command channel; in the channel a say's ReadString is
\* always directly followed by its WriteUntilDone, and the worker takes a
\* WriteUntilDone only directly after it has taken the ReadString of that say.
C11_SayEnqueuesAdjacentPair ==
    [][/\ \A text \in SayTexts :
              SayOk(text) => message_q' = message_q \o
                  <<ReadString(SayRender(text).diff, n_say'), WriteUntilDone(n_say')>>
       /\ \A i \in 1..Len(message_q') :
              message_q'[i].type = "ReadString" =>
                  /\ i < Len(message_q')
                  /\ message_q'[i + 1] = WriteUntilDone(message_q'[i].id)
       /\ \A i \in 2..Len(message_q') :
              message_q'[i].type = "WriteUntilDone" =>
                  message_q'[i - 1].type = "ReadString"
       /\ (respond_to' # respond_to /\ respond_to' # 0) =>
              /\ last_cmd = "ReadString"
              /\ Head(message_q) = WriteUntilDone(respond_to')
              /\ n_past > 0]_vars

\* the second say was made while the first was still queued whole, and the
\* worker has since read the first say's text and is about to generate
C11_Witness ==
    /\ n_say = 2
    /\ Len(message_q) = 3
    /\ Head(message_q) = WriteUntilDone(1)
    /\ message_q[2].type = "ReadString"
    /\ message_q[3] = WriteUntilDone(2)
    /\ last_cmd = "ReadString"
    /\ w_pc = "idle"

\* the worker is inside handle_msg
CommandRunning == w_pc \in {"gen", "sample", "done"}

\* C12: the worker takes a command only when no command is running, and it is
\* the oldest queued one; turns are served in the order of their say calls,
\* each after the one before it has finished; every event is sent for the
\* running command, so the events of a turn are contiguous on the event
\* channel, which delivers them in the order sent.
C12_OneCommandAtATime ==
    [][/\ (Len(message_q') < Len(message_q) /\ ~WorkerGone') =>
              /\ ~CommandRunning
              /\ respond_to = 0
              /\ message_q' = Tail(message_q)
       /\ (CommandRunning /\ ~WorkerGone') =>
              /\ Len(message_q') >= Len(message_q)
              /\ SubSeq(message_q', 1, Len(message_q)) = message_q
       /\ (respond_to' # respond_to /\ respond_to' # 0) =>
              /\ respond_to = 0
              /\ finished = 1..(respond_to' - 1)
       /\ Len(out_log') > Len(out_log) =>
              /\ CommandRunning
              /\ out_log' = Append(out_log, out_log'[Len(out_log')])
              /\ out_log'[Len(out_log')].id = respond_to
       /\ \A i, j \in 1..Len(out_log') : i < j => out_log'[i].id <= out_log'[j].id
       /\ ~HandleGone' =>
              \E k \in 0..Len(out_log') :
                  [i \in 1..Len(completion_q') |-> Logged(completion_q'[i])]
                      = SubSeq(out_log', k + 1, Len(out_log'))]_vars

\* the second turn is generating after the first has finished, and events of
\* both turns wait on the event channel
C12_Witness ==
    /\ finished = {1}
    /\ respond_to = 2
    /\ w_pc = "gen"
    /\ \E i \in 1..Len(completion_q) : completion_q[i].id = 1
    /\ \E i \in 1..Len(completion_q) : completion_q[i] = Token(<<"a">>, 2)

\* this step is a recv or try_recv call that returns the event at the head of
\* the event channel
ReturnsEvent ==
    /\ completion_q # <<>>
    /\ completion_q' = Tail(completion_q)
    /\ ~HandleGone'

\* C16: a recv or try_recv that returns Done(r) appends (assistant, r) to the
\* messages and sets length to the length of the full render of the new
\* history; one that returns another event leaves the ChatState as it was;
\* and apart from say nothing else changes the ChatState.
C16_DoneFoldsIntoChatState ==
    [][/\ (ReturnsEvent /\ Head(completion_q).type = "Done") =>
              /\ messages' = Append(messages, Message("assistant", Head(completion_q).text))
              /\ render(chat_template, messages').err = "none"
              /\ render(chat_template, messages').messages = messages'
              /\ length' = Len(render(chat_template, messages').text)
       /\ (ReturnsEvent /\ Head(completion_q).type # "Done") =>
              UNCHANGED <<messages, length>>
       /\ (<<messages, length>>' # <<messages, length>> /\ n_say' = n_say) =>
              /\ completion_q # <<>>
              /\ Head(completion_q).type = "Done"
              /\ h_pc \in {"idle", "recv", "grb"}]_vars

\* the Done of the first turn, which carried text, has been received under a
\* template that prints markers around every message
C16_Witness ==
    /\ chat_template \in {"chatml", "gemma"}
    /\ h_pc = "idle"
    /\ finished = {1}
    /\ completion_q = <<>>
    /\ Len(messages) >= 2
    /\ messages[Len(messages)].role = "assistant"
    /\ messages[Len(messages)].content # <<>>
    /\ length = Len(render(chat_template, messages).text)

\* errors of the engine's primitives (and failed debug assertions)
PrimitiveFailures == {"TokenizerError", "BatchAddError", "DecodeError", "panic"}

\* C17: once the Handle is dropped, a worker that is still running ends only
\* by leaving its receive loop with Ok, the command channel drained (a failing
\* primitive apart); it does not end with a fatal error of its own.
C17_DropDrainsThenExitsOk ==
    [][(HandleGone /\ ~WorkerGone /\ WorkerGone') =>
           \/ w_pc' = "exited" /\ message_q = <<>> /\ fatal' = NoError
           \/ fatal'.kind \in PrimitiveFailures]_vars

\* C19: a WriteUntilDone that had begun and sent a Token before the Handle
\* was dropped is not ended by the drop: it ends only after its loop has
\* reached a stop condition (a failing primitive apart).
C19_DropDoesNotPreempt ==
    [][(/\ respond_to # 0
        /\ EventsOf(respond_to) # {}
        /\ HandleGone
        /\ respond_to' = 0
        /\ fatal'.kind \notin PrimitiveFailures) => w_pc = "done"]_vars

\* this step is a step of the worker thread
WorkerStep ==
    <<w_pc, n_past, kv, full_response, respond_to, n_gen, out_log>>'
        # <<w_pc, n_past, kv, full_response, respond_to, n_gen, out_log>>

\* the worker is about to serve a ReadString
AtReadString ==
    w_pc = "idle" /\ message_q # <<>> /\ Head(message_q).type = "ReadString"

\* the worker's step is a ReadString whose text str_to_token rejects
TokenizeFails ==
    AtReadString /\ WorkerStep /\ ~CanTokenize(Head(message_q).text)

\* the worker's step is a ReadString whose tokens the batch or the cache cannot take
ReadCommitFails ==
    /\ AtReadString /\ WorkerStep /\ CanTokenize(Head(message_q).text)
    /\ LET tokens == str_to_token(Head(message_q).text)
       IN  Len(tokens) > n_ctx \/ ~DecodeFits(kv, add_sequence(tokens, n_past), n_ctx)

\* the worker's step is a loop iteration whose token the cache cannot take
GenCommitFails ==
    /\ w_pc = "sample" \/ (w_pc = "gen" /\ ~NeedsShift(n_past, n_ctx))
    /\ WorkerStep
    /\ ~DecodeFits(kv, <<[pos |-> n_past, tok |-> EogTok]>>, n_ctx)

\* the worker's step is a loop iteration whose token has no text of its own
DetokenizeFails ==
    /\ CommandRunning
    /\ Len(kv') = Len(kv) + 1
    /\ kv'[Len(kv')].tok = BadTok

\* the worker thread has ended and does nothing more; its channel is closed and empty
WorkerStaysGone ==
    WorkerGone => /\ UNCHANGED <<w_pc, n_past, kv, full_response, respond_to, n_gen,
                                 gil, out_log, finished, fatal, last_cmd>>
                  /\ message_q' = <<>>

\* this step is a say call made after a primitive failure has ended the worker
SayAfterFailure ==
    /\ w_pc \in {"dead", "panicked"}
    /\ fatal.kind \in PrimitiveFailures
    /\ n_say' = n_say + 1

\* C18 as claimed: a tokenize, detokenize or commit/decode failure ends the
\* worker, which then does nothing more, and every later say returns SendError.
C18_AnyPrimitiveFailureFatal ==
    [][/\ (TokenizeFails \/ ReadCommitFails \/ GenCommitFails \/ DetokenizeFails) =>
              w_pc' \in {"dead", "panicked"}
       /\ WorkerStaysGone
       /\ SayAfterFailure => said'[n_say'] = "SendError"]_vars

\* C18 as amended: a tokenize or commit/decode failure ends the worker, which
\* then does nothing more; a token without text is not a failure (its
\* iteration sends the replacement glyph and the worker lives on); and every
\* later say fails and enqueues nothing, with SendError unless its render has
\* already failed with TemplateError.
C18_TokenizeOrCommitFailureFatal ==
    [][/\ (TokenizeFails \/ ReadCommitFails \/ GenCommitFails) =>
              w_pc' \in {"dead", "panicked"}
       /\ DetokenizeFails =>
              /\ ~WorkerGone'
              /\ full_response' = Append(full_response, REPLACEMENT)
              /\ completion_q' = Append(completion_q, Token(<<REPLACEMENT>>, respond_to))
       /\ WorkerStaysGone
       /\ SayAfterFailure =>
              /\ said'[n_say'] \in {"SendError", "TemplateError"}
              /\ said'[n_say'] = "TemplateError" =>
                     \A text \in SayTexts :
                         messages' = SayRender(text).messages => SayRender(text).err # "none"
              /\ message_q' = <<>>]_vars

\* the first turn's command failed in a primitive and the say after it
\* returned SendError
C18_Witness ==
    /\ w_pc = "dead"
    /\ fatal.kind \in {"TokenizerError", "DecodeError"}
    /\ fatal.id = 1
    /\ said = <<"Ok", "SendError">>
    /\ message_q = <<>>

\* C20: after every render_diff that succeeds (each add_message of the Handle
\* is followed by one), the concatenation of all render_diff outputs so far is
\* the full render of the history.
C20_DiffsConcatToFullRender ==
    (said # <<>> /\ ~HandleGone /\ render(chat_template, messages).err = "none") =>
        diffs = render(chat_template, messages).text

\* worker w is inside a command that commits, decodes or samples
Inside(w) ==
    CASE w = "chat" -> w_pc \in {"gen", "sample", "done"}
      [] w = "peer" -> p_pc \in {"gen", "done"}
      [] OTHER -> e_pc = "locked"

Workers == {"chat", "peer", "embed"}

\* this step is a ReadString or ResetContext served whole by the first worker
ChatServesWhole ==
    /\ w_pc = "idle" /\ w_pc' = "idle"
    /\ Len(message_q') < Len(message_q)

\* this step is a ReadString served whole by the second worker
PeerServesWhole ==
    /\ p_pc = "idle" /\ p_pc' = "idle"
    /\ Len(p_message_q') < Len(p_message_q)

\* C13: at most one of the workers (two chat workers and the embedding worker)
\* is inside a commit, decode or sample at any time, and it is the holder of
\* the global lock; a command served in one step runs while no worker is inside.
C13_OneWorkerInInference ==
    /\ [](/\ Cardinality({w \in Workers : Inside(w)}) <= 1
          /\ \A w \in Workers : Inside(w) => gil = w)
    /\ [][(ChatServesWhole \/ PeerServesWhole) =>
              (gil = "free" /\ \A w \in Workers : ~Inside(w))]_vars

\* the second chat worker generates while the first chat worker and the
\* embedding worker both have a command to serve
C13_Witness ==
    /\ gil = "peer"
    /\ p_pc = "gen"
    /\ p_response # <<>>
    /\ w_pc = "idle"
    /\ message_q # <<>>
    /\ e_pc = "idle"
    /\ text_q # <<>>

\* C14: a worker holds the lock from the start of a command to its end:
\* while a generation of one chat worker runs, the lock stays with it and no
\* other worker commits, samples or sends an event, and the lock is released
\* when the generation ends.
C14_LockHeldForWholeCommand ==
    [][/\ (respond_to # 0 /\ respond_to' # 0) =>
              /\ gil = "chat" /\ gil' = "chat"
              /\ Len(p_message_q') >= Len(p_message_q)
              /\ UNCHANGED <<p_pc, p_n_gen, p_response, p_completion_q, e_pc, embedding_q>>
       /\ (Inside("peer") /\ Inside("peer")') =>
              /\ gil = "peer" /\ gil' = "peer"
              /\ Len(message_q') >= Len(message_q)
              /\ UNCHANGED <<w_pc, n_past, kv, n_gen, full_response, out_log,
                             e_pc, embedding_q>>
       /\ (respond_to # 0 /\ respond_to' = 0) => gil' \in {"free", "poisoned"}
       /\ (Inside("peer") /\ ~Inside("peer")') => gil' = "free"]_vars

\* the first worker is in the middle of a generation, has sent a Token, and
\* the second worker's WriteUntilDone waits for the lock
C14_Witness ==
    /\ w_pc = "gen"
    /\ full_response # <<>>
    /\ gil = "chat"
    /\ p_pc = "idle"
    /\ p_message_q = <<WriteUntilDone(PeerId)>>

\* every event on a Handle's event channel was sent by that Handle's worker
\* for that Handle's turn
OwnEvents ==
    /\ \A i \in 1..Len(completion_q) :
           completion_q[i].id = 1 /\ completion_q[i].text \in Seq({"a", REPLACEMENT})
    /\ \A i \in 1..Len(p_completion_q) :
           p_completion_q[i].id = PeerId /\ p_completion_q[i].text \in Seq({"b"})

BothSaid == said = <<"Ok">> /\ p_said

BothDone ==
    /\ 1 \in finished
    /\ \E i \in 1..Len(p_completion_q) : p_completion_q[i].type = "Done"

\* C15: with two Handles on one model that have each called say once, both
\* turns complete, in whatever order the workers get the lock, and each
\* Handle's event channel carries only the events of its own worker.
C15_BothTurnsComplete ==
    /\ []OwnEvents
    /\ BothSaid ~> BothDone

\* both turns are complete; the second worker generated first, and the first
\* Handle has received all its events
C15_Witness ==
    /\ BothDone
    /\ h_pc = "idle"
    /\ completion_q = <<>>
    /\ Len(messages) = 2
    /\ messages[2].content # <<>>
    /\ Len(p_completion_q) >= 2
    /\ p_completion_q[Len(p_completion_q)] = Done(<<"b">>, PeerId)

(* ------------------- claims on a ChatState on its own ------------------ *)
\* the call before the latest one was render_diff too
RenderDiffTwice == cs_last.op = "render_diff" /\ cs_last.prev_op = "render_diff"

\* the error of the first tmpl.render of the latest render_diff call
FirstRenderErr == TemplateRender(chat_template, cs_last.messages).err

\* the latest render_diff met "System role not supported" on system, user, ...
MergeCase ==
    /\ cs_last.op = "render_diff"
    /\ FirstRenderErr = "System role not supported"
    /\ Len(cs_last.messages) >= 2
    /\ cs_last.messages[1].role = "system"
    /\ cs_last.messages[2].role = "user"

\* system text, blank line, user text as one user message, then the later messages
MergedHistory ==
    <<[role |-> "user",
       content |-> cs_last.messages[1].content \o <<"\n", "\n">>
                       \o cs_last.messages[2].content]>>
        \o SubSeq(cs_last.messages, 3, Len(cs_last.messages))

\* the latest render_diff returned an error of the template
ReturnedRenderError == cs_last.op = "render_diff" /\ cs_last.err \notin {"none", "panic"}

\* C21: a render_diff that directly follows a render_diff leaves messages and
\* length as they were and returns what the first returned short of the text:
\* the empty string whenever the first call returned a string.
C21_SecondRenderDiffIsEmpty ==
    RenderDiffTwice =>
        /\ messages = cs_last.messages
        /\ length = cs_last.length
        /\ cs_last.err = cs_last.prev_err
        /\ (cs_last.prev_err = "none" => cs_last.diff = <<>>)

C21_Witness ==
    /\ RenderDiffTwice
    /\ cs_last.err = "none"
    /\ cs_last.diff = <<>>
    /\ Len(messages) >= 2
    /\ length > 0

\* C22: when the first rendering fails with "System role not supported" on a
\* history system, user, ..., the history becomes one user message (system
\* text, blank line, user text) followed by the later messages in order, the
\* template is rendered exactly once more, and the text that re-render
\* returns contains both original texts.
C22_MergeRecovery ==
    MergeCase =>
        /\ messages = MergedHistory
        /\ cs_last.renders = 2
        /\ (cs_last.err = "none" =>
               /\ Contains(cs_last.text, cs_last.messages[1].content)
               /\ Contains(cs_last.text, cs_last.messages[2].content))

C22_Witness ==
    /\ MergeCase
    /\ cs_last.err = "none"
    /\ Len(cs_last.messages) = 3
    /\ cs_last.messages[1].content # cs_last.messages[2].content
    /\ Len(messages) = 2

\* C23 as stated: a rendering failure other than "System role not supported"
\* is returned by render_diff after one rendering and leaves messages and
\* length exactly as before the call.
C23_OtherFailureLeavesStateAlone ==
    ReturnedRenderError =>
        /\ cs_last.renders = 1
        /\ messages = cs_last.messages
        /\ length = cs_last.length

\* C23 amended: a rendering failure other than "System role not supported" is
\* returned by render_diff with no retry of its own and leaves length as
\* before the call; messages are as before the call when the failure is that
\* of the first rendering, and are the merged history when it is the failure
\* of the re-render that follows a merge recovery.
C23_OtherFailureReturned ==
    ReturnedRenderError =>
        /\ cs_last.err = TemplateRender(chat_template, messages).err
        /\ length = cs_last.length
        /\ IF FirstRenderErr = "System role not supported"
           THEN messages = MergedHistory /\ cs_last.renders = 2
           ELSE messages = cs_last.messages /\ cs_last.renders = 1

C23_Witness ==
    /\ ReturnedRenderError
    /\ FirstRenderErr = "Conversation roles must alternate"
    /\ cs_last.length > 0
    /\ messages = cs_last.messages

\* the stored messages are still there, in place and unchanged
IsPrefix(old, new) == Len(new) >= Len(old) /\ SubSeq(new, 1, Len(old)) = old

\* C24 as stated: add_message appends one message at the end and no call
\* removes, reorders or changes a stored message.
C24_AppendOnly ==
    /\ cs_last.op = "add_message" =>
           Len(messages) = Len(cs_last.messages) + 1 /\ IsPrefix(cs_last.messages, messages)
    /\ cs_last.op = "render_diff" => IsPrefix(cs_last.messages, messages)

\* C24 amended: add_message appends one message at the end; render_diff leaves
\* the history alone unless its first rendering fails with "System role not
\* supported", and then it replaces the first two messages by their merge, so
\* that the count drops by one, and keeps every later message in place.
C24_AppendOnlyButForMerge ==
    /\ cs_last.op = "add_message" =>
           /\ Len(messages) = Len(cs_last.messages) + 1
           /\ IsPrefix(cs_last.messages, messages)
    /\ (cs_last.op = "render_diff" /\ cs_last.err # "panic") =>
           IF FirstRenderErr = "System role not supported"
           THEN /\ Len(messages) = Len(cs_last.messages) - 1
                /\ messages[1].role = "user"
                /\ Tail(messages) = Tail(Tail(cs_last.messages))
           ELSE messages = cs_last.messages

C24_Witness ==
    /\ cs_last.op = "render_diff"
    /\ cs_last.prev_op = "add_message"
    /\ FirstRenderErr = "System role not supported"
    /\ Len(cs_last.messages) = 3
    /\ Len(messages) = 2
    /\ messages[2] = cs_last.messages[3]

(* ------------------------- claims on the sampler ----------------------- *)
\* C25: whatever the method, the chain make_sampler builds starts with the
\* repetition-penalty stage carrying penalty_last_n, penalty_repeat,
\* penalty_freq and penalty_present of the configuration, and goes on with one
\* or more stages of the method, none of which is a penalty stage.
C25_PenaltiesStageFirst ==
    sampler # <<>> =>
        /\ sampler[1] = [stage |-> "penalties",
                         penalty_last_n |-> sampler_config.penalty_last_n,
                         penalty_repeat |-> sampler_config.penalty_repeat,
                         penalty_freq |-> sampler_config.penalty_freq,
                         penalty_present |-> sampler_config.penalty_present]
        /\ Len(sampler) >= 2
        /\ \A i \in 2..Len(sampler) : sampler[i].stage # "penalties"

C25_Witness ==
    /\ Len(sampler) = 3
    /\ sampler_config.method.name = "XTC"
    /\ sampler[1].stage = "penalties"
    /\ sampler[1].penalty_freq = 100
    /\ sampler[1].penalty_present = 0

(* --------------------- claims on greedy determinism -------------------- *)
\* the events of one generation loop run alone from the given worker state
RECURSIVE GreedyLoop(_, _, _, _)
GreedyLoop(cache, past, response, n) ==
    LET shift == NeedsShift(past, n_ctx)
        sh == apply_context_shifting(cache, past)
        cache1 == IF shift THEN sh.kv ELSE cache
        past1 == IF shift THEN past - sh.n_discard ELSE past
        tok == ArgMax(engine, cache1, n)
        batch == <<[pos |-> past1, tok |-> tok]>>
        has_stop == has_stop_tokens(stop_tokens, response)
    IN  IF ~DecodeFits(cache1, batch, n_ctx) THEN <<>>
        ELSE IF is_eog_token(tok) THEN <<Done(response, 1)>>
        ELSE IF has_stop
             THEN <<Token(token_to_str(tok), 1), Done(response \o token_to_str(tok), 1)>>
             ELSE <<Token(token_to_str(tok), 1)>>
                      \o GreedyLoop(decode(cache1, batch), past1 + 1,
                                    response \o token_to_str(tok), n + 1)

\* the events that answer the one say of the chat session, as a function of
\* the configuration and the text alone
GreedyEvents ==
    LET prompt == render_diff(chat_template, <<Message("user", <<"a">>)>>, 0).diff
        st == read_string(0, <<>>, str_to_token(prompt))
    IN  GreedyLoop(st.kv, st.n_past, <<>>, 0)

EmbedAtRest == e_pc # "locked"

\* the batch of a text: BOS and the text's tokens at positions 0, 1, ...
WholeTextFromZero(text) ==
    LET tokens == <<BosTok>> \o str_to_token(text)
    IN  [i \in 1..Len(tokens) |-> [pos |-> i - 1, tok |-> tokens[i]]]

\* C27: the embedding worker answers one text at a time, in order: it has at
\* most one text in work, and the k-th Embedding it sends is the one of the
\* k-th text it received, computed from a context that holds the whole token
\* sequence of that text from position 0 and nothing of an earlier text.
C27_EmbeddingsInOrder ==
    /\ Len(embedding_q) <= Len(e_log)
    /\ Len(e_log) <= Len(embedding_q) + 1
    /\ (e_pc = "idle" => Len(embedding_q) = Len(e_log))
    /\ \A k \in 1..Len(embedding_q) :
           embedding_q[k].type = "Embedding" =>
               embedding_q[k].batch = WholeTextFromZero(e_log[k])

C27_Witness ==
    /\ Len(embedding_q) = 3
    /\ \A k \in 1..3 : embedding_q[k].type = "Embedding"
    /\ e_log[1] # e_log[2]
    /\ e_pc = "idle"

\* the step of the latest request that failed ("none": no step failed)
FailedStep ==
    IF e_log = <<>> \/ e_pc = "locked" THEN "none"
    ELSE LET text == e_log[Len(e_log)]
         IN  IF e_pc = "idle" THEN "none"
             ELSE IF embedding_q # <<>>
                     /\ embedding_q[Len(embedding_q)].type = "FatalError"
                     /\ embedding_q[Len(embedding_q)].kind = "GILPoisonError"
                  THEN "lock"
             ELSE IF ~CanTokenize(text) THEN "tokenize"
             ELSE IF Len(text) + 1 > MaxEmbedCtx THEN "batch add"
             ELSE IF ~pooling THEN "embedding"
             ELSE "decode"

\* C28 as stated: every request the worker received is answered by exactly
\* one event, and when a step of a request fails that event is a FatalError
\* and the worker has terminated.
C28_EveryRequestAnswered ==
    EmbedAtRest =>
        /\ Len(embedding_q) = Len(e_log)
        /\ FailedStep # "none" =>
               /\ embedding_q[Len(embedding_q)].type = "FatalError"
               /\ e_pc = "dead"

(* --------------------- claims on cosine_similarity --------------------- *)
\* the latest call had two vectors of one length
CalledOnEqualLengths == cos_last.a # <<>> /\ Len(cos_last.a) = Len(cos_last.b)

ZeroNorm(v) == \A i \in 1..Len(v) : v[i] = 0

\* C29: for two vectors of equal length cosine_similarity returns the same
\* value for (a, b) and for (b, a), and in both orders it returns the NaN
\* sentinel, without failing, when one of the two has zero norm.
C29_CosineSymmetric ==
    CalledOnEqualLengths =>
        /\ cos_last.ret = cosine_similarity(cos_last.b, cos_last.a)
        /\ ~cos_last.ret.panic
        /\ cos_last.ret.nan = (ZeroNorm(cos_last.a) \/ ZeroNorm(cos_last.b))

C29_Witness ==
    /\ CalledOnEqualLengths
    /\ Len(cos_last.a) = 2
    /\ ~cos_last.ret.nan
    /\ cos_last.ret.value < 0
    /\ sqrt(dotproduct(cos_last.a, cos_last.a).value) # sqrt(dotproduct(cos_last.b, cos_last.b).value)

(* ---------------------- claims on simple_chat_loop --------------------- *)
\* the output calls of a turn
TurnCalls(t) == SelectSeq(chat_loop.out, LAMBDA c : c.turn = t)

\* one emit_token call per Token of the stream, in stream order
TokenCalls(items) ==
    [i \in 1..Len(StreamTokens(items)) |->
        [call |-> "emit_token", arg |-> StreamTokens(items)[i].text,
         turn |-> StreamTokens(items)[i].id]]

\* the latest turn has ended with its Done taken and the loop is back at recv
TurnSucceeded == chat_loop.pc = "recv" /\ chat_loop.turn > 0

DoneText == chat_loop.items[Len(chat_loop.items)].text

\* for the turn in work: emit_token once per Token in stream order; once the
\* generation has succeeded, then emit_response once with the Done text, and
\* the text is the assistant message that ends the history, after its user
\* message
TurnInOrder ==
    /\ (chat_loop.pc = "stream" /\ ~chat_loop.acc.some) =>
           TurnCalls(chat_loop.turn) = TokenCalls(chat_loop.items)
    /\ TurnSucceeded =>
           /\ chat_loop.items[Len(chat_loop.items)].type = "Done"
           /\ TurnCalls(chat_loop.turn) =
                  TokenCalls(chat_loop.items)
                      \o <<[call |-> "emit_response", arg |-> DoneText, turn |-> chat_loop.turn]>>
           /\ Len(messages) >= 2
           /\ messages[Len(messages)] = [role |-> "assistant", content |-> DoneText]
           /\ messages[Len(messages) - 1].role = "user"
    /\ \A t \in 1..chat_loop.turn :
           Len(SelectSeq(TurnCalls(t), LAMBDA c : c.call = "emit_response")) <= 1

\* system, (user, assistant)*, and at most one user at the end
SystemThenPairs ==
    /\ messages # <<>>
    /\ messages[1].role = "system"
    /\ \A i \in 2..Len(messages) :
           messages[i].role = IF i % 2 = 0 THEN "user" ELSE "assistant"

\* (user, assistant)*, and at most one user at the end, the first user message
\* holding the system prompt, a blank line and the first message
MergedThenPairs ==
    /\ messages # <<>>
    /\ SubSeq(messages[1].content, 1, Len(SystemPrompt) + 2) = SystemPrompt \o <<"\n", "\n">>
    /\ \A i \in 1..Len(messages) :
           messages[i].role = IF i % 2 = 1 THEN "user" ELSE "assistant"

\* C30 as stated: every turn is in order, and the history always has the
\* shape system, (user, assistant)*, with at most one user at the end.
C30_TurnsInOrderSystemFirst == TurnInOrder /\ SystemThenPairs

\* C30 amended: every turn is in order (emit_token once per Token in stream
\* order, then emit_response once with the Done text, then the text appended
\* as the assistant message before the next message is taken), and the
\* history has the shape system, (user, assistant)*, with at most one user at
\* the end, until a render_diff of a template that rejects the system role
\* merges the system message into the first user message; from then on the
\* shape is (user, assistant)*, with at most one user at the end.
C30_TurnsInOrder ==
    /\ TurnInOrder
    /\ IF chat_loop.turn > 0 /\ chat_template = "gemma"
       THEN MergedThenPairs
       ELSE SystemThenPairs

C30_Witness ==
    /\ TurnSucceeded
    /\ chat_loop.turn = 2
    /\ Len(StreamTokens(chat_loop.items)) = 2
    /\ chat_template = "gemma"
    /\ Len(messages) = 4

\* the latest call on the node was a say (or embed) that found no worker started
ColdSay ==
    /\ node.kind \in {"chat", "embedding"}
    /\ node.op = "say"
    /\ node.cold

\* C31: a say on a NobodyWhoChat (an embed on a NobodyWhoEmbedding) whose
\* worker has not been started calls start_worker once and returns, also when
\* start_worker fails; when the worker did start, the message was sent to it
\* exactly once.
C31_ColdSayStartsWorkerOnceAndReturns ==
    ColdSay =>
        /\ node.ret = "returned"
        /\ node.starts = 1
        /\ node.tx => node.inbox = <<node.arg>>

\* a ReadString of a later turn did not fit: the first turn had completed,
\* the context was never reset, and the worker died committing the prompt
LaterReadDidNotFit ==
    /\ 1 \in finished
    /\ n_reset = 0
    /\ last_cmd = "ReadString"
    /\ fatal.kind \in {"BatchAddError", "DecodeError", "panic"}

\* C32: over say turns without a ResetContext the position counter never
\* exceeds the capacity, no cell of the cache lies at a position >= capacity,
\* and the ReadString of every turn after a completed one fits in the capacity
\* that remains.
C32_EveryReadFits ==
    n_reset = 0 =>
        /\ n_past <= n_ctx
        /\ \A i \in 1..Len(kv) : kv[i].pos < n_ctx
        /\ ~LaterReadDidNotFit

\* the events of turn id that wait in the event channel, in order
QueuedOf(id) == SelectSeq(completion_q, LAMBDA ev : ev.id = id)

\* every event sent for turn id still waits in the channel
NoneReceived(id) == Len(QueuedOf(id)) = Cardinality(EventsOf(id))

\* what a consumer accumulates from the Token events among evs
Accumulated(evs) ==
    LET toks == SelectSeq(evs, LAMBDA ev : ev.type = "Token")
    IN  Concat([i \in 1..Len(toks) |-> toks[i].text])

\* C33: for every completed WriteUntilDone the text of its Done is the
\* concatenation, in emission order, of the texts of the Token events sent for
\* that command.
C33_DoneIsConcatOfTokens ==
    \A id \in finished :
        NoneReceived(id) =>
            LET evs == QueuedOf(id)
            IN  /\ evs # <<>>
                /\ evs[Len(evs)].type = "Done"
                /\ evs[Len(evs)].text = Accumulated(evs)

\* a completed turn with three Token events, the last sent in the iteration
\* that found the stop substring, all still in the channel
C33_Witness ==
    \E id \in finished :
        /\ NoneReceived(id)
        /\ Len(QueuedOf(id)) = 4
        /\ Accumulated(QueuedOf(id)) = <<"a", "a", "a">>

\* C35: when the sampled token cannot be converted to text the command does
\* not fail: the replacement glyph is appended to the response and sent as a
\* Token event of the running turn, and the loop goes on (it ends only if the
\* response already held a stop substring).
C35_UndecodableTokenReplaced ==
    [][DetokenizeFails =>
           /\ fatal' = fatal
           /\ full_response' = full_response \o <<REPLACEMENT>>
           /\ completion_q' = Append(completion_q, Token(<<REPLACEMENT>>, respond_to))
           /\ out_log' = Append(out_log, Logged(Token(<<REPLACEMENT>>, respond_to)))
           /\ w_pc' = IF has_stop_tokens(stop_tokens, full_response) THEN "done" ELSE "gen"]_vars

\* a running generation has sent the replacement glyph as a Token and another
\* token after it
C35_Witness ==
    /\ w_pc = "gen"
    /\ fatal = NoError
    /\ full_response = <<REPLACEMENT, "a">>
    /\ Len(completion_q) >= 2
    /\ completion_q[Len(completion_q) - 1] = Token(<<REPLACEMENT>>, respond_to)

\* the number of messages with the given role among the first n of msgs
CountRole(msgs, role, n) == Cardinality({j \in 1..n : msgs[j].role = role})

\* C36: in the Handle's ChatState the assistant message of a turn directly
\* follows the user message of that turn: every assistant message comes right
\* after a user message, and it is the k-th assistant message exactly when
\* that user message is the k-th user message.
C36_AssistantFollowsItsUser ==
    \A i \in 1..Len(messages) :
        messages[i].role = "assistant" =>
            /\ i > 1
            /\ messages[i - 1].role = "user"
            /\ CountRole(messages, "user", i - 1) = CountRole(messages, "assistant", i)

\* a worker found the lock unusable and died of it
DiedOfPoisonedLock ==
    \/ fatal.kind = "GILPoisonError"
    \/ \E i \in 1..Len(embedding_q) : embedding_q[i] = FatalError("GILPoisonError")

\* C37: whenever no worker is inside a command the lock is free, whether the
\* commands before ended in success or with the death of their worker, so
\* that a worker that waits for the lock gets it: no worker ever finds the
\* lock unusable.
C37_LockFreeBetweenCommands ==
    /\ (\A w \in Workers : ~Inside(w)) => gil = "free"
    /\ ~DiedOfPoisonedLock

\* the stage that carries each method's name in the sampling library
MethodStage(name) ==
    CASE name = "TopK" -> "top_k"
      [] name = "TopP" -> "top_p"
      [] name = "MinP" -> "min_p"
      [] name = "TypicalP" -> "typical"
      [] name = "XTC" -> "xtc"
      [] name = "DRY" -> "dry"
      [] name = "MirostatV1" -> "mirostat"
      [] name = "MirostatV2" -> "mirostat_v2"
      [] OTHER -> "none"

\* the stage after the penalties is the method's own, built from its own fields
OwnStageFromOwnFields(m, st) ==
    /\ st.stage = MethodStage(m.name)
    /\ CASE m.name = "TopK" -> st.k = m.top_k
         [] m.name = "TopP" -> st.p = m.top_p /\ st.min_keep = m.min_keep
         [] m.name = "MinP" -> st.p = m.min_p /\ st.min_keep = m.min_keep
         [] m.name = "TypicalP" -> st.p = m.typ_p /\ st.min_keep = m.min_keep
         [] m.name = "XTC" -> /\ st.p = m.xtc_probability /\ st.t = m.xtc_threshold
                              /\ st.min_keep = m.min_keep /\ st.seed = m.seed
         [] OTHER -> /\ st.multiplier = m.dry_multiplier /\ st.base = m.dry_base
                     /\ st.allowed_length = m.dry_allowed_length
                     /\ st.penalty_last_n = m.dry_penalty_last_n

\* C34: after the penalties, make_sampler puts the stage of the configured
\* method, built from that method's fields, and then a draw seeded with the
\* method's seed (TopK, TopP, MinP, TypicalP, XTC, DRY); for Temperature the
\* temperature stage and the seeded draw; for MirostatV1 and MirostatV2 the
\* temperature stage and the mirostat stage of that version with the method's
\* seed, tau and eta.
C34_MethodMapsToOwnStage ==
    sampler # <<>> =>
        LET m == sampler_config.method
        IN  /\ m.name \in {"TopK", "TopP", "MinP", "TypicalP", "XTC", "DRY"} =>
                   /\ Len(sampler) = 3
                   /\ OwnStageFromOwnFields(m, sampler[2])
                   /\ sampler[3] = dist(m.seed)
            /\ m.name = "Temperature" =>
                   /\ Len(sampler) = 3
                   /\ sampler[2] = temp(m.temperature)
                   /\ sampler[3] = dist(m.seed)
            /\ m.name \in {"MirostatV1", "MirostatV2"} =>
                   /\ Len(sampler) = 3
                   /\ sampler[2] = temp(m.temperature)
                   /\ sampler[3].stage = MethodStage(m.name)
                   /\ sampler[3].seed = m.seed
                   /\ sampler[3].tau = m.tau
                   /\ sampler[3].eta = m.eta

\* C38: the method name a NobodyWhoSampler exports and the variant in its
\* sampler_config denote the same method, so that the configuration
\* get_sampler_config hands to the worker of a chat node with that sampler
\* uses the method that was last set.
C38_MethodNameMatchesConfig ==
    /\ nw_sampler.method = nw_sampler.sampler_config.method.name
    /\ node.sampler => get_sampler_config(node, nw_sampler).method.name = nw_sampler.method

\* C39: a call of physics_process makes at most one pass of its loop more
\* than it forwards events, the pass that finds the channel empty or
\* disconnected, and none when no worker was started; and the disconnection
\* of a channel is reported at most once, over all frames.
C39_PhysicsProcessStops ==
    /\ node.passes <= node.forwarded + 1
    /\ ~node.rx /\ node.passes > 0 => node.reports + node.forwarded + node.errors > 0
    /\ node.reports <= 1

\* the stream of the latest turn is over (the turn began with a render that succeeded)
StreamOver == chat_loop.turn > 0 /\ chat_loop.pc # "stream" /\ chat_loop.ret # "panic"

\* the stream of the latest turn has yielded an item of the given type
Yielded(type) == \E i \in 1..Len(chat_loop.items) : chat_loop.items[i].type = type

\* the latest turn got no emit_response and no assistant message
TurnLeftOpen ==
    /\ \A i \in 1..Len(chat_loop.out) :
           chat_loop.out[i].turn = chat_loop.turn => chat_loop.out[i].call # "emit_response"
    /\ messages[Len(messages)].role = "user"

\* C40: in simple_chat_loop a response stream that ends without Done and
\* without error makes the loop return NoResponseError; one that yields an
\* error makes the loop call emit_error and return that error; in both cases
\* the turn gets no emit_response and no assistant message; and the loop
\* returns Ok only after the sender of the say channel was dropped.
C40_FailedTurnEndsTheLoop ==
    /\ (StreamOver /\ ~Yielded("Done") /\ ~Yielded("Err")) =>
           /\ chat_loop.pc = "returned"
           /\ chat_loop.ret = "NoResponseError"
           /\ TurnLeftOpen
    /\ (StreamOver /\ Yielded("Err")) =>
           /\ chat_loop.pc = "returned"
           /\ chat_loop.ret = "GenerateResponseError"
           /\ Call("emit_error", <<>>, chat_loop.turn) \in
                  {chat_loop.out[i] : i \in 1..Len(chat_loop.out)}
           /\ TurnLeftOpen
    /\ chat_loop.ret \in {"NoResponseError", "GenerateResponseError"} =>
           StreamOver /\ ~Yielded("Done")
    /\ chat_loop.ret = "Ok" => ~chat_loop.say_open /\ chat_loop.say_q = <<>>

\* the second turn's stream yielded a Token and then an error, after a first
\* turn that succeeded
C40_Witness ==
    /\ chat_loop.pc = "returned"
    /\ chat_loop.ret = "GenerateResponseError"
    /\ chat_loop.turn = 2
    /\ Len(chat_loop.items) = 2
    /\ chat_loop.items[1].type = "Token"

============================================================================
